---------------------------- MODULE Spec2Model ----------------------------
(***************************************************************************)
(* A model of @softwarity/interactive-code: the <code-binding> element     *)
(* (src/src/code-binding.element.ts) and the rendering pipeline of the     *)
(* <interactive-code> element (src/src/interactive-code.element.ts).       *)
(*                                                                         *)
(* JavaScript values are tagged records of one shape, so that values of    *)
(* different JavaScript types can be compared.  JavaScript strings that    *)
(* the code parses (attribute texts, conditions, keys, option lists,       *)
(* binding values) are sequences of one-character strings.  A template     *)
(* line is its indentation and a sequence of tokens: a placeholder ${key}  *)
(* (with its optional ="..." suffix), a closing placeholder ${/key}, or a  *)
(* chunk of other text.                                                    *)
(***************************************************************************)
EXTENDS Integers, Sequences, FiniteSets, TLC

(***************************************************************************)
(* Bounds of the model.                                                    *)
(***************************************************************************)
\* numbers a number binding may hold lie in -MaxAbs..MaxAbs
MaxAbs == 12
\* toggles counted by the cycling history before the count saturates
MaxToggles == 5
\* changes of the bindings that the host may miss between two render passes
MaxUnseen == 1

\* the clipboard writes that may be unresolved at a time
MaxWrites == 2

(***************************************************************************)
(* JavaScript values.                                                      *)
(***************************************************************************)
VUndef == [t |-> "undefined", b |-> FALSE, n |-> 0, s |-> <<>>]
VNull == [t |-> "null", b |-> FALSE, n |-> 0, s |-> <<>>]
VNaN == [t |-> "NaN", b |-> FALSE, n |-> 0, s |-> <<>>]
VBool(x) == [t |-> "boolean", b |-> x, n |-> 0, s |-> <<>>]
VNum(x) == [t |-> "number", b |-> FALSE, n |-> x, s |-> <<>>]
VStr(x) == [t |-> "string", b |-> FALSE, n |-> 0, s |-> x]

\* a === b  (NaN is not equal to itself)
StrictEq(a, b) == a.t # "NaN" /\ a = b

\* the values that count as false in a condition, in ||, and under !
Falsy(v) ==
  \/ v.t \in {"undefined", "null", "NaN"}
  \/ v.t = "boolean" /\ ~v.b
  \/ v.t = "number" /\ v.n = 0
  \/ v.t = "string" /\ v.s = <<>>

(***************************************************************************)
(* Strings as sequences of characters.                                     *)
(***************************************************************************)
sTrue == <<"t", "r", "u", "e">>
sFalse == <<"f", "a", "l", "s", "e">>
sUndefined == <<"u", "n", "d", "e", "f", "i", "n", "e", "d">>
sNull == <<"n", "u", "l", "l">>
sNaN == <<"N", "a", "N">>

Digits == <<"0", "1", "2", "3", "4", "5", "6", "7", "8", "9">>
IsDigit(c) == \E i \in 1..Len(Digits) : Digits[i] = c
DigitVal(c) == (CHOOSE i \in 1..Len(Digits) : Digits[i] = c) - 1
IsSpace(c) == c \in {" ", "\t", "\n"}

\* s.slice(from) and s.slice(from, to), with 0-based offsets
SliceFrom(s, from) == SubSeq(s, from + 1, Len(s))
Slice(s, from, to) == SubSeq(s, from + 1, to)

\* s.indexOf(c): the 0-based offset of the first c, or -1
IndexOf(s, c) ==
  IF \E i \in 1..Len(s) : s[i] = c
  THEN (CHOOSE i \in 1..Len(s) : s[i] = c /\ \A j \in 1..(i - 1) : s[j] # c) - 1
  ELSE -1

StartsWith(s, c) == Len(s) > 0 /\ s[1] = c

RECURSIVE TrimStart(_)
TrimStart(s) ==
  IF s # <<>> /\ IsSpace(Head(s)) THEN TrimStart(Tail(s)) ELSE s

RECURSIVE TrimEnd(_)
TrimEnd(s) ==
  IF s # <<>> /\ IsSpace(s[Len(s)]) THEN TrimEnd(SubSeq(s, 1, Len(s) - 1)) ELSE s

\* s.trim()
Trim(s) == TrimEnd(TrimStart(s))

\* s.split(c)
RECURSIVE Split(_, _)
Split(s, c) ==
  LET i == IndexOf(s, c)
  IN IF i = -1 THEN <<s>> ELSE <<Slice(s, 0, i)>> \o Split(SliceFrom(s, i + 1), c)

RECURSIVE DigitsVal(_, _)
DigitsVal(s, acc) ==
  IF s = <<>> THEN acc ELSE DigitsVal(Tail(s), acc * 10 + DigitVal(Head(s)))

RECURSIVE NatChars(_)
NatChars(n) ==
  IF n < 10 THEN <<Digits[n + 1]>> ELSE NatChars(n \div 10) \o <<Digits[(n % 10) + 1]>>

\* String(v)
String(v) ==
  CASE v.t = "undefined" -> sUndefined
    [] v.t = "null" -> sNull
    [] v.t = "NaN" -> sNaN
    [] v.t = "boolean" -> IF v.b THEN sTrue ELSE sFalse
    [] v.t = "number" -> IF v.n < 0 THEN <<"-">> \o NatChars(-v.n) ELSE NatChars(v.n)
    [] v.t = "string" -> v.s

\* Number(text) for the texts of the model: decimal integers with an optional
\* sign, the empty text (0), and anything else (NaN)
StringToNumber(s) ==
  LET t == Trim(s)
      signed == t # <<>> /\ Head(t) \in {"-", "+"}
      ds == IF signed THEN Tail(t) ELSE t
  IN IF t = <<>> THEN VNum(0)
     ELSE IF ds # <<>> /\ \A i \in 1..Len(ds) : IsDigit(ds[i])
          THEN VNum(IF signed /\ Head(t) = "-" THEN -DigitsVal(ds, 0) ELSE DigitsVal(ds, 0))
          ELSE VNaN

\* Number(v)
ToNumber(v) ==
  CASE v.t \in {"number", "NaN"} -> v
    [] v.t = "undefined" -> VNaN
    [] v.t = "null" -> VNum(0)
    [] v.t = "boolean" -> VNum(IF v.b THEN 1 ELSE 0)
    [] v.t = "string" -> StringToNumber(v.s)

\* a + b, a - b on numbers; a > b, a < b (false when either is NaN)
NumAdd(a, b) == IF a.t = "NaN" \/ b.t = "NaN" THEN VNaN ELSE VNum(a.n + b.n)
NumSub(a, b) == IF a.t = "NaN" \/ b.t = "NaN" THEN VNaN ELSE VNum(a.n - b.n)
NumGt(a, b) == a.t = "number" /\ b.t = "number" /\ a.n > b.n
NumLt(a, b) == a.t = "number" /\ b.t = "number" /\ a.n < b.n


(***************************************************************************)
(* The <code-binding> element (src/src/code-binding.element.ts).           *)
(* An element is a record of its attributes (aValue, aMin, aMax, aStep,    *)
(* aOptions: VNull when absent, else VStr(text); aDisabled: present or     *)
(* not) and of its private fields _value, _disabled, _connected.  Each     *)
(* method yields the element after the call and the details of the change  *)
(* events it dispatched, in order.                                         *)
(***************************************************************************)
BoolTypes == {"boolean", "comment", "attribute"}

\* a call that returned / a call that threw, with the element as it is then and
\* the calls made to handlers of the change event, in order
Result(el, events) == [el |-> el, events |-> events, threw |-> FALSE]

Thrown(el, events) == [el |-> el, events |-> events, threw |-> TRUE]

\* get min / max / step
Min(el) == IF el.aMin.t # "null" THEN ToNumber(el.aMin) ELSE VUndef
Max(el) == IF el.aMax.t # "null" THEN ToNumber(el.aMax) ELSE VUndef
Step(el) == IF el.aStep.t # "null" THEN ToNumber(el.aStep) ELSE VUndef

\* get options: the attribute split at commas, each part trimmed
Options(el) ==
  IF el.aOptions.t = "null" \/ el.aOptions.s = <<>> THEN <<>>
  ELSE LET parts == Split(el.aOptions.s, ",")
       IN [i \in 1..Len(parts) |-> Trim(parts[i])]

parseValue(type, v) ==
  IF v.t \in {"null", "undefined"} THEN VUndef
  ELSE CASE type \in BoolTypes -> VBool(v = VStr(sTrue) \/ v = VBool(TRUE))
         [] type = "number" -> IF v.t \in {"number", "NaN"} THEN v ELSE ToNumber(v)
         [] OTHER -> VStr(String(v))

\* new CustomEvent('change', {detail, bubbles, composed})
ChangeEvent(el) ==
  [type |-> "change", detail |-> el._value, bubbles |-> TRUE, composed |-> TRUE]

\* emitChange: the event goes to the text of the onchange attribute, if there
\* is one (aOnchange: "" without one, else "returns" or "throws" for what the
\* text does), then to dispatchEvent, unless the text threw
emitChange(el) ==
  LET event == ChangeEvent(el)
  IN IF el.aOnchange = "" THEN Result(el, <<[to |-> "listeners", e |-> event]>>)
     ELSE IF el.aOnchange = "throws"
          THEN Thrown(el, <<[to |-> "onchange", e |-> event]>>)
          ELSE Result(el, <<[to |-> "onchange", e |-> event],
                            [to |-> "listeners", e |-> event]>>)

\* set value(v)
SetValue(el, v) ==
  LET new == parseValue(el.type, v)
      el2 == [el EXCEPT !._value = new]
  IN IF ~StrictEq(el._value, new) THEN emitChange(el2) ELSE Result(el2, <<>>)

attributeChangedCallback(el, name, newValue) ==
  IF name = "value" /\ newValue.t # "null"
  THEN LET parsed == parseValue(el.type, newValue)
       IN IF ~StrictEq(el._value, parsed)
          THEN LET el2 == [el EXCEPT !._value = parsed]
               IN IF el._connected THEN emitChange(el2) ELSE Result(el2, <<>>)
          ELSE Result(el, <<>>)
  ELSE IF name = "disabled"
       THEN Result([el EXCEPT !._disabled = (newValue.t # "null")], <<>>)
       ELSE Result(el, <<>>)

\* setAttribute('value', text) / removeAttribute('value') and its callback
SetValueAttribute(el, newValue) ==
  attributeChangedCallback([el EXCEPT !.aValue = newValue], "value", newValue)

\* toggleAttribute('disabled', on) and its callback
SetDisabledAttribute(el, on) ==
  attributeChangedCallback([el EXCEPT !.aDisabled = on], "disabled",
                           IF on THEN VStr(<<>>) ELSE VNull)

\* the element as it is once created with its attributes: the constructor,
\* then attributeChangedCallback for each observed attribute that is present
Constructed(type, aValue, aMin, aMax, aStep, aOptions, aDisabled) ==
  LET el0 == [type |-> type, aValue |-> aValue, aMin |-> aMin, aMax |-> aMax,
              aStep |-> aStep, aOptions |-> aOptions, aDisabled |-> aDisabled,
              aOnchange |-> "",
              _value |-> VUndef, _disabled |-> FALSE, _connected |-> FALSE]
      el1 == IF aValue.t # "null"
             THEN attributeChangedCallback(el0, "value", aValue).el ELSE el0
  IN IF aDisabled THEN attributeChangedCallback(el1, "disabled", VStr(<<>>)).el ELSE el1

\* the element with an onchange attribute
WithOnchange(el, text) == [el EXCEPT !.aOnchange = text]

connectedCallbackBinding(el) ==
  LET el1 == IF el.aValue.t # "null"
             THEN [el EXCEPT !._value = parseValue(el.type, el.aValue)] ELSE el
  IN [el1 EXCEPT !._disabled = el.aDisabled, !._connected = TRUE]

\* opts.indexOf(v), 0-based
OptIndexOf(opts, v) ==
  IF \E i \in 1..Len(opts) : StrictEq(VStr(opts[i]), v)
  THEN (CHOOSE i \in 1..Len(opts) :
          StrictEq(VStr(opts[i]), v) /\ \A j \in 1..(i - 1) : ~StrictEq(VStr(opts[j]), v)) - 1
  ELSE -1

toggle(el) ==
  IF el._disabled THEN Result(el, <<>>)
  ELSE IF el.type \in BoolTypes THEN SetValue(el, VBool(Falsy(el._value)))
  ELSE IF el.type = "select"
       THEN LET opts == Options(el)
            IN IF Len(opts) > 0
               THEN LET currentIndex == OptIndexOf(opts, el._value)
                        nextIndex == (currentIndex + 1) % Len(opts)
                    IN SetValue(el, VStr(opts[nextIndex + 1]))
               ELSE Result(el, <<>>)
       ELSE Result(el, <<>>)

increment_Unguarded(el) ==
  IF el.type = "number"
  THEN LET step == IF Step(el).t = "undefined" THEN VNum(1) ELSE Step(el)
           max == Max(el)
           sum == NumAdd(IF Falsy(el._value) THEN VNum(0) ELSE el._value, step)
           newValue == IF max.t # "undefined" /\ NumGt(sum, max) THEN max ELSE sum
       IN SetValue(el, newValue)
  ELSE Result(el, <<>>)

increment(el) ==
  IF el._disabled THEN Result(el, <<>>)
  ELSE IF el.type = "number"
       THEN LET step == IF Step(el).t = "undefined" THEN VNum(1) ELSE Step(el)
                max == Max(el)
                sum == NumAdd(IF Falsy(el._value) THEN VNum(0) ELSE el._value, step)
                newValue == IF max.t # "undefined" /\ NumGt(sum, max) THEN max ELSE sum
            IN SetValue(el, newValue)
       ELSE Result(el, <<>>)

decrement(el) ==
  IF el._disabled THEN Result(el, <<>>)
  ELSE IF el.type = "number"
       THEN LET step == IF Step(el).t = "undefined" THEN VNum(1) ELSE Step(el)
                min == Min(el)
                diff == NumSub(IF Falsy(el._value) THEN VNum(0) ELSE el._value, step)
                newValue == IF min.t # "undefined" /\ NumLt(diff, min) THEN min ELSE diff
            IN SetValue(el, newValue)
       ELSE Result(el, <<>>)


(***************************************************************************)
(* Template text.  A text is a non-empty sequence of lines (the text       *)
(* split at "\n"; the empty text is one empty line).                       *)
(***************************************************************************)
Open(key) == [t |-> "open", key |-> key, attr |-> "", s |-> ""]
OpenAttr(key, attr) == [t |-> "open", key |-> key, attr |-> attr, s |-> ""]
Close(key) == [t |-> "close", key |-> key, attr |-> "", s |-> ""]
Text(s) == [t |-> "text", key |-> <<>>, attr |-> "", s |-> s]
Line(indent, toks) == [indent |-> indent, toks |-> toks]

EmptyText == <<Line("", <<>>)>>
SeparatorLine == Line("", <<Text("__SECTION_SEPARATOR__")>>)

\* parts.join(sep), sep being "\n" (between == <<>>) or a line between newlines
RECURSIVE Join(_, _)
Join(parts, between) ==
  IF parts = <<>> THEN EmptyText
  ELSE IF Len(parts) = 1 THEN parts[1]
  ELSE parts[1] \o between \o Join(Tail(parts), between)

\* value.replace(/^\n/, '').replace(/\n\s*$/, ''): one leading newline goes,
\* and the last newline after which only white space follows goes with it
RECURSIVE DropBlankTail(_)
DropBlankTail(lines) ==
  IF Len(lines) > 1 /\ lines[Len(lines)].toks = <<>>
  THEN DropBlankTail(SubSeq(lines, 1, Len(lines) - 1))
  ELSE lines

CleanContent(lines) ==
  DropBlankTail(IF Len(lines) > 1 /\ lines[1] = Line("", <<>>) THEN Tail(lines) ELSE lines)

(***************************************************************************)
(* Conditions and assembly (interactive-code.element.ts, 236-308).  tbl is *)
(* the Binding Table: the collected keys, each with its element.           *)
(***************************************************************************)
\* what a condition is worth when its key has no binding
absentBinding_False(isNegated) == FALSE

absentBinding(isNegated) == isNegated

\* key=value: String(binding.value) === expectedValue
matches_Untrimmed(value, expr, eqIndex) ==
  String(value) = SliceFrom(expr, eqIndex + 1)

matches(value, expr, eqIndex) ==
  LET expectedValue == Trim(SliceFrom(expr, eqIndex + 1))
  IN String(value) = expectedValue

isTruthy_NotNullish(value) ==
  value.t # "undefined" /\ value.t # "null"

isTruthy_Coerced(value) == ~Falsy(value)

isTruthy(value) ==
  /\ value.t # "undefined"
  /\ value.t # "null"
  /\ value # VBool(FALSE)
  /\ value # VStr(sUndefined)

evaluateCondition(condition, tbl) ==
  IF condition.t = "null" \/ condition.s = <<>> THEN TRUE
  ELSE
    LET isNegated == StartsWith(condition.s, "!")
        expr == IF isNegated THEN Trim(SliceFrom(condition.s, 1)) ELSE Trim(condition.s)
        eqIndex == IndexOf(expr, "=")
    IN IF eqIndex # -1
       THEN LET key == Trim(Slice(expr, 0, eqIndex))
            IN IF key \notin DOMAIN tbl THEN absentBinding(isNegated)
               ELSE IF isNegated THEN ~matches(tbl[key]._value, expr, eqIndex)
                    ELSE matches(tbl[key]._value, expr, eqIndex)
       ELSE LET key == expr
            IN IF key \notin DOMAIN tbl THEN absentBinding(isNegated)
               ELSE IF isNegated THEN ~isTruthy(tbl[key]._value)
                    ELSE isTruthy(tbl[key]._value)

\* the indices of the sections whose condition holds, in order
RECURSIVE KeptFrom(_, _, _)
KeptFrom(ccs, i, tbl) ==
  IF i > Len(ccs) THEN <<>>
  ELSE (IF evaluateCondition(ccs[i].condition, tbl) THEN <<i>> ELSE <<>>)
       \o KeptFrom(ccs, i + 1, tbl)

\* parts.join(...), kept being the indices of the sections pushed to parts
JoinParts(ccs, kept, showSeparators) ==
  LET parts == [i \in 1..Len(kept) |-> ccs[kept[i]].content]
  IN [kept |-> kept,
      templateContent |-> IF showSeparators /\ Len(parts) > 1
                          THEN Join(parts, <<SeparatorLine>>)
                          ELSE Join(parts, <<>>)]

updateTemplateContent(ccs, tbl, showSeparators) ==
  JoinParts(ccs, KeptFrom(ccs, 1, tbl), showSeparators)

\* the key taken to be the whole condition after its "!": a condition
\* key=value is about no key
hasConditionDependency_BareOnly(ccs, key) ==
  \E i \in 1..Len(ccs) :
    LET c == ccs[i].condition
    IN /\ c.t # "null" /\ c.s # <<>>
       /\ LET expr == IF StartsWith(c.s, "!") THEN Trim(SliceFrom(c.s, 1)) ELSE Trim(c.s)
          IN expr = key

hasConditionDependency(ccs, key) ==
  \E i \in 1..Len(ccs) :
    LET c == ccs[i].condition
    IN /\ c.t # "null" /\ c.s # <<>>
       /\ LET expr == IF StartsWith(c.s, "!") THEN Trim(SliceFrom(c.s, 1)) ELSE Trim(c.s)
              eqIndex == IndexOf(expr, "=")
              condKey == IF eqIndex # -1 THEN Trim(Slice(expr, 0, eqIndex)) ELSE expr
          IN condKey = key


(***************************************************************************)
(* Rendering (interactive-code.element.ts, 563-870).  The markup of a line *)
(* is a record; the markup inside it is a sequence of fragments.           *)
(***************************************************************************)
Frag(f, key, active, disabled, s, v, lang) ==
  [f |-> f, key |-> key, active |-> active, disabled |-> disabled,
   s |-> s, v |-> v, lang |-> lang]

getCommentStyle(language) ==
  CASE language = "html" ->
         [lineIndicator |-> "&lt;!--", blockIndicator |-> "&lt;!--",
          blockEnd |-> " --&gt;", blockEndIndicator |-> "--&gt;"]
    [] language = "shell" ->
         [lineIndicator |-> "#", blockIndicator |-> "#",
          blockEnd |-> "", blockEndIndicator |-> ""]
    [] OTHER ->
         [lineIndicator |-> "//", blockIndicator |-> "/*",
          blockEnd |-> " */", blockEndIndicator |-> "*/"]

\* the keys k with a ${/k} anywhere in the text
findBlockCommentKeys(templateContent) ==
  UNION {{templateContent[i].toks[j].key :
            j \in {j \in 1..Len(templateContent[i].toks) :
                     templateContent[i].toks[j].t = "close"}} :
         i \in 1..Len(templateContent)}

escapeChar(c) ==
  CASE c = "&" -> <<"&", "a", "m", "p", ";">>
    [] c = "<" -> <<"&", "l", "t", ";">>
    [] c = ">" -> <<"&", "g", "t", ";">>
    [] c = "\"" -> <<"&", "q", "u", "o", "t", ";">>
    [] c = "'" -> <<"&", "#", "3", "9", ";">>
    [] OTHER -> <<c>>

RECURSIVE escapeHtml(_)
escapeHtml(text) ==
  IF text = <<>> THEN <<>> ELSE escapeChar(Head(text)) \o escapeHtml(Tail(text))

\* the markup of one binding; attrValue is the ="..." that followed ${key}
renderBinding(binding, key, attrValue) ==
  LET value == binding._value
      escValue == escapeHtml(IF value.t \in {"undefined", "null"} THEN <<>> ELSE String(value))
  IN CASE binding.type = "boolean" ->
            Frag("inline-boolean", key, FALSE, binding._disabled, "", escValue, "")
       [] binding.type = "number" ->
            Frag("inline-number", key, FALSE, binding._disabled, "", escValue, "")
       [] binding.type = "string" ->
            Frag("inline-string", key, FALSE, binding._disabled, "", escValue, "")
       [] binding.type = "select" ->
            IF Len(Options(binding)) = 2
            THEN Frag("inline-select-toggle", key, FALSE, binding._disabled, "", escValue, "")
            ELSE Frag("inline-select-wrapper", key, FALSE, binding._disabled, "", escValue, "")
       [] binding.type = "color" ->
            Frag("inline-color", key, FALSE, binding._disabled, "", escValue, "")
       [] binding.type = "attribute" ->
            Frag("inline-attribute", key, value = VBool(TRUE), binding._disabled,
                 attrValue, <<>>, "")
       [] binding.type = "readonly" ->
            Frag("token-value", key, FALSE, FALSE, "", escValue, "")
       [] OTHER -> Frag("text", key, FALSE, FALSE, "", escValue, "")

Marker(kind, index) == "__" \o kind \o "_" \o ToString(index) \o "__"

\* highlightSyntax: every chunk of text becomes highlighted code of the language;
\* marker tokens are words of letters, digits and underscores and come out as
\* they went in
highlightSyntax(toks, language) ==
  [i \in 1..Len(toks) |-> Frag("code", <<>>, FALSE, FALSE, toks[i].s, <<>>, language)]

\* processed.replace(marker, html): the first occurrence of the marker's text
ReplaceFirst(frags, marker, html) ==
  IF \E i \in 1..Len(frags) : frags[i].f = "code" /\ frags[i].s = marker
  THEN LET i == CHOOSE i \in 1..Len(frags) :
                  /\ frags[i].f = "code" /\ frags[i].s = marker
                  /\ \A j \in 1..(i - 1) : ~(frags[j].f = "code" /\ frags[j].s = marker)
       IN [frags EXCEPT ![i] = html]
  ELSE frags

RECURSIVE Restore(_, _)
Restore(frags, markers) ==
  IF markers = <<>> THEN frags
  ELSE Restore(ReplaceFirst(frags, markers[1].marker, markers[1].html), Tail(markers))

\* the markup for ${key} were the missing binding rendered like a binding of no
\* known type: its (empty) value as bare text
unknownToken_BareValue(key) == Frag("text", key, FALSE, FALSE, "", <<>>, "")

\* <span class="token-unknown">${key}</span>
unknownToken(key) == Frag("token-unknown", key, FALSE, FALSE, "${", <<>>, "")

\* content.replace(/\$\{([\w-]+)\}(="[^"]*")?/g, ...): the callback, for one token
ReplaceOpen(st, tok, commentStyle, blockCommentKeys, tbl) ==
  IF tok.t # "open" THEN [st EXCEPT !.toks = Append(@, tok)]
  ELSE IF tok.key \in DOMAIN tbl /\ tbl[tok.key].type = "comment"
          /\ tok.key \in blockCommentKeys
  THEN LET marker == Marker("COMMENT_START", st.markerIndex)
           isEnabled == tbl[tok.key]._value = VBool(TRUE)
           toggleHtml == Frag("block-toggle", tok.key, ~isEnabled, FALSE,
                              commentStyle.blockIndicator, <<>>, "")
       IN [st EXCEPT !.toks = Append(@, Text(marker)),
                     !.markerIndex = @ + 1,
                     !.markers = Append(@, [marker |-> marker, html |-> toggleHtml]),
                     !.blockStartsOnLine = Append(@, tok.key),
                     !.openBlockComments = @ \cup {tok.key}]
  ELSE LET marker == Marker("BINDING", st.markerIndex)
           html == IF tok.key \notin DOMAIN tbl
                   THEN unknownToken(tok.key)
                   ELSE renderBinding(tbl[tok.key], tok.key, tok.attr)
       IN [st EXCEPT !.toks = Append(@, Text(marker)),
                     !.markerIndex = @ + 1,
                     !.markers = Append(@, [marker |-> marker, html |-> html])]

\* processed.replace(/\$\{\/([\w-]+)\}/g, ...): the callback, for one token
ReplaceClose(st, tok, commentStyle, tbl) ==
  IF tok.t # "close" THEN [st EXCEPT !.toks = Append(@, tok)]
  ELSE IF tok.key \in DOMAIN tbl /\ tbl[tok.key].type = "comment"
          /\ commentStyle.blockEndIndicator # ""
  THEN LET marker == Marker("COMMENT_END", st.markerIndex)
           isEnabled == tbl[tok.key]._value = VBool(TRUE)
           endHtml == Frag("block-end", tok.key, ~isEnabled, FALSE,
                           commentStyle.blockEndIndicator, <<>>, "")
       IN [st EXCEPT !.toks = Append(@, Text(marker)),
                     !.markerIndex = @ + 1,
                     !.markers = Append(@, [marker |-> marker, html |-> endHtml]),
                     !.blockEndsOnLine = Append(@, tok.key),
                     !.openBlockComments = @ \ {tok.key}]
  ELSE LET marker == Marker("BINDING", st.markerIndex)
           html == Frag("token-unknown", tok.key, FALSE, FALSE, "${/", <<>>, "")
       IN [st EXCEPT !.toks = Append(@, Text(marker)),
                     !.markerIndex = @ + 1,
                     !.markers = Append(@, [marker |-> marker, html |-> html])]

\* the first replace, over the tokens left to right
RECURSIVE ReplaceOpens(_, _, _, _, _)
ReplaceOpens(st, toks, commentStyle, blockCommentKeys, tbl) ==
  IF toks = <<>> THEN st
  ELSE ReplaceOpens(ReplaceOpen(st, Head(toks), commentStyle, blockCommentKeys, tbl),
                    Tail(toks), commentStyle, blockCommentKeys, tbl)

\* the second replace, over the result of the first
RECURSIVE ReplaceCloses(_, _, _, _)
ReplaceCloses(st, toks, commentStyle, tbl) ==
  IF toks = <<>> THEN st
  ELSE ReplaceCloses(ReplaceClose(st, Head(toks), commentStyle, tbl),
                     Tail(toks), commentStyle, tbl)

SecondReplace(st1, commentStyle, tbl) ==
  ReplaceCloses([st1 EXCEPT !.toks = <<>>], st1.toks, commentStyle, tbl)

\* the end of processMarkers: highlight, then put the markup back for the markers
RestoreMarkers(st2, effectiveLanguage) ==
  [processedContent |-> Restore(highlightSyntax(st2.toks, effectiveLanguage), st2.markers),
   blockStartsOnLine |-> st2.blockStartsOnLine,
   blockEndsOnLine |-> st2.blockEndsOnLine,
   openBlockComments |-> st2.openBlockComments]

processMarkers(content, commentStyle, blockCommentKeys, openBlockComments, effectiveLanguage, tbl) ==
  LET st0 == [toks |-> <<>>, markerIndex |-> 0, markers |-> <<>>,
              blockStartsOnLine |-> <<>>, blockEndsOnLine |-> <<>>,
              openBlockComments |-> openBlockComments]
  IN RestoreMarkers(
       SecondReplace(ReplaceOpens(st0, content, commentStyle, blockCommentKeys, tbl),
                     commentStyle, tbl),
       effectiveLanguage)

\* the markup of one line: cls "code-line", the line-disabled modifier (grayed),
\* the line number (0: none), the line toggle if any, and the content
buildLineHtml_GrayInBlock(indent, processedContent, lineToggle, shouldGrayLine, commentStyle, lineNumber, language) ==
  LET isEnabled == lineToggle # <<>> /\ lineToggle[1].el._value = VBool(TRUE)
  IN [cls |-> "code-line",
      grayed |-> shouldGrayLine \/ (lineToggle # <<>> /\ ~isEnabled),
      num |-> lineNumber, indent |-> indent,
      toggle |-> IF lineToggle = <<>> THEN <<>>
                 ELSE <<Frag("line-toggle", lineToggle[1].key, ~isEnabled, FALSE,
                             commentStyle.lineIndicator, <<>>, "")>>,
      content |-> processedContent,
      suffix |-> IF lineToggle # <<>> /\ language = "html" /\ ~isEnabled
                 THEN commentStyle.blockEnd ELSE ""]

buildLineHtml(indent, processedContent, lineToggle, shouldGrayLine, commentStyle, lineNumber, language) ==
  IF lineToggle # <<>>
  THEN LET isEnabled == lineToggle[1].el._value = VBool(TRUE)
           toggleHtml == Frag("line-toggle", lineToggle[1].key, ~isEnabled, FALSE,
                              commentStyle.lineIndicator, <<>>, "")
           commentSuffix == IF language = "html" /\ ~isEnabled
                            THEN commentStyle.blockEnd ELSE ""
       IN [cls |-> "code-line", grayed |-> ~isEnabled, num |-> lineNumber,
           indent |-> indent, toggle |-> <<toggleHtml>>,
           content |-> processedContent, suffix |-> commentSuffix]
  ELSE [cls |-> "code-line", grayed |-> shouldGrayLine, num |-> lineNumber,
        indent |-> indent, toggle |-> <<>>,
        content |-> processedContent, suffix |-> ""]

\* the end of renderLine: the gray decision, then the markup; pm is what
\* processMarkers returned
GrayAndBuild(pm, indent, lineToggle, isInsideActiveBlock, commentStyle, lineNumber, tbl, language) ==
  LET hasActiveBlockStart ==
        \E i \in 1..Len(pm.blockStartsOnLine) :
          tbl[pm.blockStartsOnLine[i]]._value = VBool(FALSE)
      hasActiveBlockEnd ==
        \E i \in 1..Len(pm.blockEndsOnLine) :
          tbl[pm.blockEndsOnLine[i]]._value = VBool(FALSE)
      shouldGrayLine == isInsideActiveBlock \/ hasActiveBlockStart \/ hasActiveBlockEnd
  IN [html |-> buildLineHtml(indent, pm.processedContent, lineToggle, shouldGrayLine,
                             commentStyle, lineNumber, language),
      openBlockComments |-> pm.openBlockComments]

renderLine(line, commentStyle, blockCommentKeys, openBlockComments, lineNumber, effectiveLanguage, tbl, language) ==
  LET indent == line.indent
      \* content.match(/^\$\{([\w-]+)\}/)
      matched == line.toks # <<>> /\ line.toks[1].t = "open"
      isToggle == /\ matched
                  /\ line.toks[1].key \in DOMAIN tbl
                  /\ tbl[line.toks[1].key].type = "comment"
                  /\ line.toks[1].key \notin blockCommentKeys
      lineToggle == IF isToggle
                    THEN <<[key |-> line.toks[1].key, el |-> tbl[line.toks[1].key]]>>
                    ELSE <<>>
      \* content.slice(match.length): a ="..." after the token stays as text
      content == IF isToggle
                 THEN (IF line.toks[1].attr # "" THEN <<Text(line.toks[1].attr)>> ELSE <<>>)
                      \o Tail(line.toks)
                 ELSE line.toks
      isInsideActiveBlock ==
        \E key \in openBlockComments : key \in DOMAIN tbl /\ tbl[key]._value = VBool(FALSE)
  IN GrayAndBuild(processMarkers(content, commentStyle, blockCommentKeys,
                                 openBlockComments, effectiveLanguage, tbl),
                  indent, lineToggle, isInsideActiveBlock, commentStyle, lineNumber,
                  tbl, language)


\* the tag tests of renderTemplate, /<style[\s>]/i and the like, decided on the
\* chunks of text the templates of the model are made of
OpeningStyleTexts == {"<style>", "<style lang=\"scss\">", "<style>a{}</style>"}
ClosingStyleTexts == {"</style>", "<style>a{}</style>"}
OpeningScriptTexts == {"<script>", "<script type=\"module\">"}
ClosingScriptTexts == {"</script>"}

\* line.replace(/\$\{[\w-]+\}/g, '').replace(/\$\{\/[\w-]+\}/g, '').trim()
Stripped(line) ==
  {line.toks[j].s : j \in {j \in 1..Len(line.toks) : line.toks[j].t = "text"}}

isOpeningStyleTag(stripped) == stripped \cap OpeningStyleTexts # {}
isClosingStyleTag(stripped) == stripped \cap ClosingStyleTexts # {}
isOpeningScriptTag(stripped) == stripped \cap OpeningScriptTexts # {}

\* /<\/style>/i in the place of /<\/script>/i
isClosingScriptTag_Style(stripped) == stripped \cap ClosingStyleTexts # {}

isClosingScriptTag(stripped) == stripped \cap ClosingScriptTexts # {}

SeparatorHtml ==
  [cls |-> "section-separator", grayed |-> FALSE, num |-> 0, indent |-> "",
   toggle |-> <<>>, content |-> <<>>, suffix |-> ""]

\* the loop of renderTemplate at a separator line
PushSeparator_Numbered(st) ==
  [st EXCEPT !.renderedLines = Append(@, SeparatorHtml),
             !.opens = Append(@, st.openBlockComments),
             !.lineNumber = @ + 1]

PushSeparator(st) ==
  [st EXCEPT !.renderedLines = Append(@, SeparatorHtml),
             !.opens = Append(@, st.openBlockComments)]

\* the loop of renderTemplate after a line is rendered; r is what renderLine returned
PushLine(st, r, zone) ==
  [renderedLines |-> Append(st.renderedLines, r.html),
   opens |-> Append(st.opens, r.openBlockComments),
   openBlockComments |-> r.openBlockComments,
   lineNumber |-> st.lineNumber + 1,
   currentZone |-> zone]

\* the body of the loop of renderTemplate, for one line; c holds what the loop
\* reads: language, showLineNumbers, commentStyle, blockCommentKeys, tbl
LineStep(st, line, c) ==
  IF line = SeparatorLine
  THEN PushSeparator(st)
  ELSE LET stripped == Stripped(line)
           closing == /\ c.language = "html"
                      /\ \/ st.currentZone = "scss" /\ isClosingStyleTag(stripped)
                         \/ st.currentZone = "typescript" /\ isClosingScriptTag(stripped)
           zone1 == IF closing THEN "html" ELSE st.currentZone
           openingStyle == /\ c.language = "html" /\ zone1 = "html"
                           /\ isOpeningStyleTag(stripped) /\ ~isClosingStyleTag(stripped)
           openingScript == /\ c.language = "html" /\ zone1 = "html" /\ ~openingStyle
                            /\ isOpeningScriptTag(stripped) /\ ~isClosingScriptTag(stripped)
           effectiveLanguage == IF closing \/ openingStyle \/ openingScript
                                THEN "html" ELSE st.currentZone
           zone2 == IF openingStyle THEN "scss"
                    ELSE IF openingScript THEN "typescript" ELSE zone1
       IN PushLine(st,
                   renderLine(line, c.commentStyle, c.blockCommentKeys,
                              st.openBlockComments,
                              IF c.showLineNumbers THEN st.lineNumber ELSE 0,
                              effectiveLanguage, c.tbl, c.language),
                   zone2)

RECURSIVE RenderLines(_, _, _)
RenderLines(st, lines, c) ==
  IF lines = <<>> THEN st
  ELSE RenderLines(LineStep(st, Head(lines), c), Tail(lines), c)

\* the locals of renderTemplate when its loop starts, were they kept from the
\* call before: prev is what that call left in them
LoopStart_Carried(prev, language) ==
  [renderedLines |-> <<>>, opens |-> <<>>, openBlockComments |-> prev.openBlockComments,
   lineNumber |-> prev.lineNumber, currentZone |-> prev.currentZone]

\* the locals of renderTemplate when its loop starts: a new Set, lineNumber = 1,
\* currentZone = this.language, whatever the call before left
LoopStart(prev, language) ==
  [renderedLines |-> <<>>, opens |-> <<>>, openBlockComments |-> {},
   lineNumber |-> 1, currentZone |-> language]

\* what a call leaves in its locals when it returns
LoopEnd(st) ==
  [openBlockComments |-> st.openBlockComments, lineNumber |-> st.lineNumber,
   currentZone |-> st.currentZone]

\* renderedLines is the markup; opens records, line by line, the Open Block State
\* after the line; prev is what the call before left in its locals
renderTemplate(templateContent, language, showLineNumbers, tbl, prev) ==
  RenderLines(LoopStart(prev, language),
              templateContent,
              [language |-> language, showLineNumbers |-> showLineNumbers,
               commentStyle |-> getCommentStyle(language),
               blockCommentKeys |-> findBlockCommentKeys(templateContent), tbl |-> tbl])


(***************************************************************************)
(* The state.                                                              *)
(***************************************************************************)
VARIABLES
  bnd,                  \* the <code-binding> elements, by key
  emitted,              \* the calls the last step made to handlers of change events
  cycle,                \* per element, its toggle history: [start, n], n toggle() calls
                        \* made on it from the value start with nothing else touching
                        \* it (n = -1: something else has, or it is not an enabled select)
                        \* and refused: the last call on it was a method call made
                        \* while it was disabled
  dom,                  \* the light-DOM children given to the host: [textareas, template]
  attached,             \* whether these children (and the bindings) are in the host
  connected,            \* whether the host is in the document
  hostAttrs,            \* [language, showLineNumbers, showSeparators]
  templateContent,
  conditionalContents,
  bindings,             \* the keys of the host's Map of bindings
  _code,
  _initialized,
  _internalChange,
  _observer,            \* whether a MutationObserver is held and observing
  mutationPending,      \* whether it has records to deliver
  _fallbackTimeout,     \* whether the fallback timer is pending
  _copyTimeout,         \* whether the field holds the handle of a copy-feedback timer
  clipboard,            \* [writes, timers]: the clipboard writes not yet settled, and
                        \* the copy-feedback timers set and neither fired nor cleared
  listening,            \* whether the host's event listeners are installed
  codeContainer,        \* the rendered lines
  pass,                 \* what the last render pass read, and its Open Block States
  unseen                \* the changes of the bindings since that pass that the host
                        \* did not hear of

elemVars == <<bnd, emitted, cycle>>
hostVars == <<dom, attached, connected, hostAttrs, templateContent, conditionalContents,
              bindings, _code, _initialized, _internalChange, _observer, mutationPending,
              _fallbackTimeout, _copyTimeout, clipboard, listening, codeContainer,
              pass, unseen>>
vars == <<elemVars, hostVars>>

NullCode == <<>>
EmptyTbl == [k \in {} |-> VUndef]
NoDom == [textareas |-> <<>>, template |-> <<>>]
NoPass == [done |-> FALSE, template |-> EmptyText, sections |-> <<>>, kept |-> <<>>,
           tbl |-> EmptyTbl, attrs |-> [language |-> "html", showLineNumbers |-> FALSE,
                                        showSeparators |-> FALSE],
           opens |-> <<>>, n |-> 0,
           last |-> [openBlockComments |-> {}, lineNumber |-> 1, currentZone |-> "html"]]

\* the Binding Table: the collected keys with their elements
Tbl(keys, els) == [k \in keys |-> els[k]]

\* what querySelectorAll sees
DomNow == IF attached THEN dom ELSE NoDom

extractTemplate(code, domNow, ccs, tc, tbl, showSeparators) ==
  IF code # NullCode THEN [conditionalContents |-> ccs, templateContent |-> tc]
  ELSE IF Len(domNow.textareas) > 0
  THEN LET ccs2 == [i \in 1..Len(domNow.textareas) |->
                      [content |-> CleanContent(domNow.textareas[i].value),
                       condition |-> domNow.textareas[i].condition]]
       IN [conditionalContents |-> ccs2,
           templateContent |-> updateTemplateContent(ccs2, tbl, showSeparators).templateContent]
  ELSE IF domNow.template # <<>>
  THEN LET c == CleanContent(domNow.template)
       IN [conditionalContents |-> <<[content |-> c, condition |-> VNull]>>,
           templateContent |-> c]
  ELSE [conditionalContents |-> ccs, templateContent |-> tc]

collectBindings(keys, els, isAttached) ==
  keys \cup (IF isAttached THEN {k \in DOMAIN els : k # <<>>} ELSE {})

\* the end of updateCode: render the assembled template (asm); out is what
\* renderTemplate returned
Rendered(ccs, asm, tbl, attrs) ==
  [template |-> asm.templateContent, sections |-> ccs, kept |-> asm.kept, tbl |-> tbl,
   attrs |-> attrs,
   out |-> renderTemplate(asm.templateContent, attrs.language, attrs.showLineNumbers, tbl,
                          pass.last)]

\* updateCode: assemble when there are sections, then render
updateCode(ccs, tc, tbl, attrs) ==
  Rendered(ccs,
           IF Len(ccs) > 0 THEN updateTemplateContent(ccs, tbl, attrs.showSeparators)
           ELSE [kept |-> <<>>, templateContent |-> tc],
           tbl, attrs)

\* the host's state after updateCode returned u
\* updateCode called n times in one handler, for the same bindings: what the
\* last of the passes leaves
ShowTimes(u, n) ==
  /\ templateContent' = u.template
  /\ codeContainer' = u.out.renderedLines
  /\ pass' = [done |-> TRUE, template |-> u.template, sections |-> u.sections,
              kept |-> u.kept, tbl |-> u.tbl, attrs |-> u.attrs, opens |-> u.out.opens,
              n |-> n, last |-> LoopEnd(u.out)]
  /\ unseen' = 0

Show(u) == ShowTimes(u, 1)

(***************************************************************************)
(* Operations on a binding element.  A change event bubbles to the host     *)
(* when the element is one of its children; the host's listener             *)
(* (_handleChange) then re-renders, within the same step.                   *)
(***************************************************************************)
\* whether the host hears the change events of an operation
Heard(events) ==
  /\ \E i \in 1..Len(events) : events[i].to = "listeners" /\ events[i].e.bubbles
  /\ listening /\ attached /\ ~_internalChange

\* _handleChange, for the events of one operation
HandleChange(els, events) ==
  IF Heard(events)
  THEN ShowTimes(updateCode(conditionalContents, templateContent, Tbl(bindings, els),
                            hostAttrs),
                 Cardinality({i \in 1..Len(events) :
                                events[i].to = "listeners" /\ events[i].e.bubbles}))
  ELSE /\ unseen' = IF pass.done /\ els # bnd THEN unseen + 1 ELSE unseen
       /\ UNCHANGED <<templateContent, codeContainer, pass>>

hostRest == <<dom, attached, connected, hostAttrs, conditionalContents, bindings, _code,
              _initialized, _internalChange, _observer, mutationPending, _fallbackTimeout,
              _copyTimeout, clipboard, listening>>

\* the numbers of the model stay within the bound
InRange(el) == el._value.t = "number" => el._value.n \in -MaxAbs..MaxAbs

\* an onchange text that assigns to another binding of the page:
\* document.querySelector('[key=b]').value = false
SetsB == "b.value=false"

\* the text of the onchange attribute of r.el was executed, and returned
RanOnchange(r) ==
  /\ ~r.threw
  /\ \E i \in 1..Len(r.events) : r.events[i].to = "onchange"

\* the bindings after the setter of k returned r: k's element, and b's when
\* k's onchange text assigned to it
AfterOnchange(k, r) ==
  IF r.el.aOnchange = SetsB /\ RanOnchange(r) /\ k # <<"b">> /\ <<"b">> \in DOMAIN bnd
  THEN [bnd EXCEPT ![k] = r.el, ![<<"b">>] = SetValue(@, VBool(FALSE)).el]
  ELSE [bnd EXCEPT ![k] = r.el]

\* the change events of the step in their order: those of b's setter come
\* while the onchange text of k runs, before k's event is dispatched
EventsAfterOnchange(k, r) ==
  IF r.el.aOnchange = SetsB /\ RanOnchange(r) /\ k # <<"b">> /\ <<"b">> \in DOMAIN bnd
  THEN <<Head(r.events)>> \o SetValue(bnd[<<"b">>], VBool(FALSE)).events \o Tail(r.events)
  ELSE r.events

BindingOp(k, r, newCycle) ==
  /\ InRange(r.el)
  /\ Heard(EventsAfterOnchange(k, r)) \/ ~pass.done \/ AfterOnchange(k, r) = bnd
     \/ unseen < MaxUnseen
  /\ bnd' = AfterOnchange(k, r)
  /\ emitted' = EventsAfterOnchange(k, r)
  /\ cycle' = [h \in DOMAIN cycle |->
                IF h = k THEN newCycle
                ELSE IF bnd'[h] # bnd[h] THEN [cycle[h] EXCEPT !.n = -1, !.refused = FALSE]
                ELSE cycle[h]]
  /\ HandleChange(bnd', EventsAfterOnchange(k, r))
  /\ UNCHANGED hostRest

Tainted(k) == [cycle[k] EXCEPT !.n = -1, !.refused = FALSE]

\* the history after a method call: for an element without a host it records
\* that the call was made while the element was disabled
Called(k) == [Tainted(k) EXCEPT !.refused = (dom = NoDom /\ bnd[k]._disabled)]

Toggle(k) ==
  BindingOp(k, toggle(bnd[k]),
            IF bnd[k]._disabled THEN Called(k)
            ELSE IF cycle[k].n >= 0 /\ cycle[k].n <= MaxToggles
                 THEN [cycle[k] EXCEPT !.n = @ + 1] ELSE cycle[k])

Increment(k) == BindingOp(k, increment(bnd[k]), Called(k))

Decrement(k) == BindingOp(k, decrement(bnd[k]), Called(k))

\* the values scripts assign to the value property, by type
PropValues(type) ==
  CASE type \in BoolTypes -> {VBool(TRUE), VBool(FALSE), VUndef}
    [] type = "number" -> {VNum(0), VStr(<<"4">>), VUndef}
    [] OTHER -> {VStr(<<"a">>), VStr(sUndefined), VStr(<<>>), VUndef}

\* the texts scripts give to the value attribute, by type (VNull: removed)
AttrValues(type) ==
  CASE type \in BoolTypes -> {VStr(sTrue), VStr(sFalse), VNull}
    [] type = "number" -> {VStr(<<"0">>), VStr(<<"4">>), VStr(<<"x">>), VNull}
    [] OTHER -> {VStr(<<"a">>), VStr(<<"b">>), VStr(sUndefined), VNull}

SetValueProp(k) ==
  \E v \in PropValues(bnd[k].type) :
    BindingOp(k, SetValue(bnd[k], v), Tainted(k))

SetValueAttr(k) ==
  \E text \in AttrValues(bnd[k].type) :
    /\ text # bnd[k].aValue
    /\ BindingOp(k, SetValueAttribute(bnd[k], text), Tainted(k))

SetDisabled(k) ==
  BindingOp(k, SetDisabledAttribute(bnd[k], ~bnd[k].aDisabled), Tainted(k))

\* a standalone element is put in a document
ElementConnected(k) ==
  /\ ~attached
  /\ BindingOp(k, Result(connectedCallbackBinding(bnd[k]), <<>>),
               IF cycle[k].n = 0 THEN cycle[k] ELSE Tainted(k))


(***************************************************************************)
(* A binding element on its own (no host): the specification SpecBinding.  *)
(***************************************************************************)
\* the host of the model before it is connected, with nothing in it
HostIdleRest ==
  /\ attached = FALSE
  /\ connected = FALSE
  /\ templateContent = EmptyText
  /\ conditionalContents = <<>>
  /\ bindings = {}
  /\ _code = NullCode
  /\ _initialized = FALSE
  /\ _internalChange = FALSE
  /\ _observer = FALSE
  /\ mutationPending = FALSE
  /\ _fallbackTimeout = FALSE
  /\ _copyTimeout = FALSE
  /\ clipboard = [writes |-> 0, timers |-> 0]
  /\ listening = FALSE
  /\ codeContainer = <<>>
  /\ unseen = 0
  /\ pass = NoPass

kN == <<"n">>

\* option lists: plain, with blanks around the commas, with a repeated option
OptionTexts ==
  {VNull,
   VStr(<<"a", ",", "b", ",", "c">>),
   VStr(<<"a", ",", " ", "b">>),
   VStr(<<"a", ",", "b", ",", "a", ",", "c">>)}

StandaloneElements ==
  {Constructed("number", v, mn, mx, st, VNull, FALSE) :
     v \in {VNull, VStr(<<"0">>), VStr(<<"2">>), VStr(<<"4">>)},
     mn \in {VNull, VStr(<<"0">>)},
     mx \in {VNull, VStr(<<"5">>)},
     st \in {VNull, VStr(<<"2">>), VStr(<<"-", "3">>)}}
  \cup {Constructed("select", v, VNull, VNull, VNull, o, FALSE) :
          v \in {VNull, VStr(<<"a">>), VStr(<<"c">>)}, o \in OptionTexts}
  \cup {WithOnchange(Constructed("boolean", v, VNull, VNull, VNull, VNull, FALSE), h) :
          v \in {VNull, VStr(sTrue), VStr(sFalse)}, h \in {"", "returns"}}

NewCycle(el) ==
  [start |-> el._value, n |-> IF el.type = "select" /\ ~el._disabled THEN 0 ELSE -1,
   refused |-> FALSE]

InitBinding ==
  /\ \E el \in StandaloneElements :
       /\ bnd = [k \in {kN} |-> el]
       /\ cycle = [k \in {kN} |-> NewCycle(el)]
  /\ emitted = <<>>
  /\ dom = NoDom
  /\ hostAttrs = NoPass.attrs
  /\ HostIdleRest

NextBinding ==
  \/ Toggle(kN)
  \/ Increment(kN)
  \/ Decrement(kN)
  \/ SetValueProp(kN)
  \/ SetValueAttr(kN)
  \/ SetDisabled(kN)
  \/ ElementConnected(kN)

SpecBinding == InitBinding /\ [][NextBinding]_vars


(***************************************************************************)
(* The host <interactive-code> with its children: the specification Spec.  *)
(***************************************************************************)
\* a host step is no binding operation
HostStep ==
  /\ emitted' = <<>>
  /\ UNCHANGED <<cycle, dom, _internalChange, _copyTimeout, clipboard>>

AllConnected(els) == [k \in DOMAIN els |-> connectedCallbackBinding(els[k])]

\* what extractTemplate leaves in conditionalContents and templateContent
Extracted ==
  extractTemplate(_code, DomNow, conditionalContents, templateContent,
                  Tbl(bindings, bnd), hostAttrs.showSeparators)

\* if (this.templateContent), right after extractTemplate
HasTemplate == Extracted.templateContent # EmptyText

\* extractTemplate and collectBindings, then updateCode if update
\* extractTemplate(); collectBindings(); and updateCode() with _initialized = true
\* only if there is content, in the timer's callback as in the observer's
ExtractCollectUpdate_IfContent(update) ==
  LET x == Extracted
      keys == collectBindings(bindings, bnd, attached)
  IN /\ conditionalContents' = x.conditionalContents
     /\ bindings' = keys
     /\ IF update /\ HasTemplate
        THEN /\ Show(updateCode(x.conditionalContents, x.templateContent,
                                Tbl(keys, bnd), hostAttrs))
             /\ _initialized' = TRUE
        ELSE /\ templateContent' = x.templateContent
             /\ UNCHANGED <<_initialized, codeContainer, pass, unseen>>

ExtractCollectUpdate(update) ==
  LET x == Extracted
      keys == collectBindings(bindings, bnd, attached)
  IN /\ conditionalContents' = x.conditionalContents
     /\ bindings' = keys
     /\ IF update
        THEN /\ Show(updateCode(x.conditionalContents, x.templateContent,
                                Tbl(keys, bnd), hostAttrs))
             /\ _initialized' = TRUE
        ELSE /\ templateContent' = x.templateContent
             /\ UNCHANGED _initialized

\* the host is put in a document; its children, if any, connect after it
ConnectedCallback ==
  /\ ~connected
  /\ connected' = TRUE
  /\ listening' = TRUE
  /\ ExtractCollectUpdate(HasTemplate)
  /\ IF HasTemplate
     THEN UNCHANGED <<_observer, mutationPending, _fallbackTimeout>>
     ELSE /\ codeContainer' = <<>>
          /\ pass' = NoPass
          /\ unseen' = 0
          /\ _observer' = TRUE
          /\ mutationPending' = FALSE
          /\ _fallbackTimeout' = TRUE
  /\ bnd' = IF attached THEN AllConnected(bnd) ELSE bnd
  /\ HostStep
  /\ UNCHANGED <<attached, hostAttrs, _code>>

\* the copy-feedback timers left were the field set to null without clearTimeout
clearCopyTimeout_Forgotten(handle, timers) == timers

\* if (this._copyTimeout) clearTimeout(this._copyTimeout): the copy-feedback
\* timers left
clearCopyTimeout(handle, timers) == IF handle /\ timers > 0 THEN timers - 1 ELSE timers

\* the body of disconnectedCallback
Teardown ==
  /\ connected' = FALSE
  /\ _observer' = FALSE
  /\ mutationPending' = FALSE
  /\ _fallbackTimeout' = FALSE
  /\ listening' = FALSE
  /\ emitted' = <<>>
  /\ _copyTimeout' = FALSE
  /\ clipboard' = [clipboard EXCEPT !.timers = clearCopyTimeout(_copyTimeout, @)]
  /\ UNCHANGED <<bnd, cycle, dom, attached, hostAttrs, templateContent,
                 conditionalContents, bindings, _code, _initialized, _internalChange,
                 codeContainer, pass, unseen>>

\* the host is taken out of the document
DisconnectedCallback ==
  /\ connected
  /\ Teardown

\* disconnectedCallback is called again, on a host that is in no document
DisconnectedAgain ==
  /\ ~connected
  /\ Teardown

\* the children are projected into the host after it was created
AttachChildren ==
  /\ ~attached
  /\ attached' = TRUE
  /\ bnd' = IF connected THEN AllConnected(bnd) ELSE bnd
  /\ mutationPending' = _observer
  /\ HostStep
  /\ UNCHANGED <<connected, hostAttrs, templateContent, conditionalContents, bindings,
                 _code, _initialized, _observer, _fallbackTimeout, listening,
                 codeContainer, pass, unseen>>

\* the MutationObserver's callback
ObserverCallback ==
  /\ _observer
  /\ mutationPending
  /\ mutationPending' = FALSE
  /\ ExtractCollectUpdate(HasTemplate)
  /\ IF HasTemplate
     THEN _observer' = FALSE
     ELSE UNCHANGED <<_observer, codeContainer, pass, unseen>>
  /\ HostStep
  /\ UNCHANGED <<bnd, attached, connected, hostAttrs, _code, _fallbackTimeout, listening>>

\* the fallback timer's callback
FallbackTimeout ==
  /\ _fallbackTimeout
  /\ _observer' = FALSE
  /\ mutationPending' = FALSE
  /\ _fallbackTimeout' = FALSE
  /\ ExtractCollectUpdate(TRUE)
  /\ HostStep
  /\ UNCHANGED <<bnd, attached, connected, hostAttrs, _code, listening>>

\* the rest of the host is left as it is by the clipboard's steps
ClipboardStep ==
  /\ emitted' = <<>>
  /\ UNCHANGED <<bnd, cycle, dom, attached, connected, hostAttrs, templateContent,
                 conditionalContents, bindings, _code, _initialized, _internalChange,
                 _observer, mutationPending, _fallbackTimeout, listening, codeContainer,
                 pass, unseen>>

\* copyToClipboard, from a click or Enter/Space on the copy button:
\* navigator.clipboard.writeText(text) is started
CopyToClipboard ==
  /\ listening
  /\ clipboard.writes < MaxWrites
  /\ clipboard' = [clipboard EXCEPT !.writes = @ + 1]
  /\ UNCHANGED _copyTimeout
  /\ ClipboardStep

\* the write resolved: the then-callback clears the timer it knows of and sets
\* a new one
ClipboardResolved ==
  /\ clipboard.writes > 0
  /\ clipboard' = [writes |-> clipboard.writes - 1,
                   timers |-> clearCopyTimeout(_copyTimeout, clipboard.timers) + 1]
  /\ _copyTimeout' = TRUE
  /\ ClipboardStep

\* the write was rejected: the catch-callback does nothing
ClipboardRejected ==
  /\ clipboard.writes > 0
  /\ clipboard' = [clipboard EXCEPT !.writes = @ - 1]
  /\ UNCHANGED _copyTimeout
  /\ ClipboardStep

\* a copy-feedback timer fires: this._copyTimeout = null
CopyTimeout ==
  /\ clipboard.timers > 0
  /\ clipboard' = [clipboard EXCEPT !.timers = @ - 1]
  /\ _copyTimeout' = FALSE
  /\ ClipboardStep

kK == <<"k">>
kJ == <<"j">>
kM == <<"m">>

\* the texts scripts give to the code property
CodeTexts == {<<Line("", <<Text("coded "), Open(kK), Open(kM)>>)>>}

\* set code(value)
SetCode ==
  \E value \in {NullCode} \cup CodeTexts :
    /\ _code' = value
    /\ IF value # NullCode
       THEN IF _initialized
            THEN Show(updateCode(conditionalContents, value, Tbl(bindings, bnd), hostAttrs))
            ELSE /\ templateContent' = value
                 /\ UNCHANGED <<codeContainer, pass, unseen>>
       ELSE UNCHANGED <<templateContent, codeContainer, pass, unseen>>
    /\ HostStep
    /\ UNCHANGED <<bnd, attached, connected, hostAttrs, conditionalContents, bindings,
                   _initialized, _observer, mutationPending, _fallbackTimeout, listening>>

\* toggleAttribute('show-line-numbers') and the host's attributeChangedCallback
SetShowLineNumbers ==
  /\ hostAttrs' = [hostAttrs EXCEPT !.showLineNumbers = ~@]
  /\ IF _initialized
     THEN Show(updateCode(conditionalContents, templateContent, Tbl(bindings, bnd),
                          hostAttrs'))
     ELSE UNCHANGED <<templateContent, codeContainer, pass, unseen>>
  /\ HostStep
  /\ UNCHANGED <<bnd, attached, connected, conditionalContents, bindings, _code,
                 _initialized, _observer, mutationPending, _fallbackTimeout, listening>>

\* toggleAttribute('show-separators'): not an observed attribute
SetShowSeparators ==
  /\ hostAttrs' = [hostAttrs EXCEPT !.showSeparators = ~@]
  /\ HostStep
  /\ UNCHANGED <<bnd, attached, connected, templateContent, conditionalContents,
                 bindings, _code, _initialized, _observer, mutationPending,
                 _fallbackTimeout, listening, codeContainer, pass, unseen>>

(***************************************************************************)
(* What the user does with the rendered controls.  A control is a fragment *)
(* of a rendered line that carries data-binding; the controls that toggle  *)
(* carry data-action="toggle", the ones with an inline editor (an <input>  *)
(* or a <select> inside the control) carry an edit action.                 *)
(***************************************************************************)
ToggleKinds ==
  {"inline-boolean", "inline-select-toggle", "inline-attribute", "line-toggle",
   "block-toggle"}

InputKinds == {"inline-number", "inline-string", "inline-color"}

SelectKinds == {"inline-select-wrapper"}

\* the places <<line, index>> of the controls of these kinds for key k
ControlsAt(k, kinds) ==
  {<<h, c>> \in UNION {{h} \X (1..Len(codeContainer[h].content)) :
                         h \in 1..Len(codeContainer)} :
     codeContainer[h].content[c].f \in kinds /\ codeContainer[h].content[c].key = k}

\* the data-action of the controls for key k that the user can reach
ActionsOf(k) ==
  {IF f \in ToggleKinds THEN "toggle" ELSE "edit" :
     f \in {codeContainer[h].toggle[1].f :
              h \in {h \in 1..Len(codeContainer) :
                       /\ codeContainer[h].toggle # <<>>
                       /\ codeContainer[h].toggle[1].key = k}}
          \cup {codeContainer[p[1]].content[p[2]].f :
                  p \in ControlsAt(k, ToggleKinds \cup InputKinds \cup SelectKinds)}}

\* handleAction: toggle, or the focus given to the inline editor
handleAction(el, action) ==
  IF action = "toggle" THEN toggle(el) ELSE Result(el, <<>>)

\* _handleShadowClick on a control of k
ClickControl(k) ==
  /\ listening
  /\ k \in bindings
  /\ \E action \in ActionsOf(k) : BindingOp(k, handleAction(bnd[k], action), Called(k))

\* _handleShadowKeydown on a control of k
Keydown(k) ==
  /\ listening
  /\ k \in bindings
  /\ \E action \in ActionsOf(k), key \in {"Enter", "ArrowUp", "ArrowDown"} :
       BindingOp(k,
                 IF key = "Enter" THEN handleAction(bnd[k], action)
                 ELSE IF bnd[k].type # "number" THEN Result(bnd[k], <<>>)
                 ELSE IF key = "ArrowUp" THEN increment(bnd[k])
                 ELSE decrement(bnd[k]),
                 Called(k))

\* _internalChange = true; binding.value = newValue; and the flag left behind
\* when the flag is reset only after an assignment that returns
guardedAssign_NoFinally(el, newValue) ==
  [r |-> SetValue(el, newValue), held |-> TRUE,
   _internalChange |-> SetValue(el, newValue).threw]

\* _internalChange = true; try { binding.value = newValue } finally
\* { _internalChange = false }: the host's own listener does not render for the
\* change event of this assignment
guardedAssign(el, newValue) ==
  [r |-> SetValue(el, newValue), held |-> TRUE, _internalChange |-> FALSE]

\* the text shown by the control at place p is set to the new value
ShowInPlace(p, newValue) ==
  [codeContainer EXCEPT ![p[1]].content[p[2]].v = escapeHtml(String(newValue))]

\* the calls of updateCode made by _handleChange for these change events, all
\* dispatched while the flag was as held says
HeardWhile(events, held) ==
  IF listening /\ attached /\ ~held
  THEN Cardinality({i \in 1..Len(events) :
                      events[i].to = "listeners" /\ events[i].e.bubbles})
  ELSE 0

\* an inline editor handler, for the editor of the control at p: the guarded
\* assignment, during which _handleChange gets the change events, then
\* updateCode when a condition depends on the key
InlineEdit(k, p, newValue, g) ==
  LET own == IF ~g.r.threw /\ hasConditionDependency(conditionalContents, k) THEN 1 ELSE 0
      passes == HeardWhile(EventsAfterOnchange(k, g.r), g.held) + own
  IN /\ unseen < MaxUnseen \/ AfterOnchange(k, g.r) = bnd \/ passes > 0
     /\ InRange(g.r.el)
     /\ bnd' = AfterOnchange(k, g.r)
     /\ emitted' = EventsAfterOnchange(k, g.r)
     /\ cycle' = [h \in DOMAIN cycle |->
                   IF h = k \/ bnd'[h] # bnd[h]
                   THEN [cycle[h] EXCEPT !.n = -1, !.refused = FALSE]
                   ELSE cycle[h]]
     /\ _internalChange' = g._internalChange
     /\ IF passes > 0
        THEN ShowTimes(updateCode(conditionalContents, templateContent,
                                  Tbl(bindings, bnd'), hostAttrs), passes)
        ELSE /\ codeContainer' = ShowInPlace(p, newValue)
             /\ unseen' = IF bnd' # bnd THEN unseen + 1 ELSE unseen
             /\ UNCHANGED <<templateContent, pass>>
  /\ UNCHANGED <<dom, attached, connected, hostAttrs, conditionalContents, bindings,
                 _code, _initialized, _observer, mutationPending, _fallbackTimeout,
                 _copyTimeout, clipboard, listening>>

\* what the user types in an inline editor: valueAsNumber || 0, or value
InputValues(kind) ==
  CASE kind = "inline-number" -> {VNum(3)}
    [] kind = "inline-color" -> {VStr(<<"#", "f", "f", "f">>)}
    [] OTHER -> {VStr(<<"a">>)}

\* _handleShadowInput: an input event of the <input> of a control of k
ShadowInput(k) ==
  /\ listening
  /\ k \in bindings
  /\ \E p \in ControlsAt(k, InputKinds) :
       \E newValue \in InputValues(codeContainer[p[1]].content[p[2]].f) :
         InlineEdit(k, p, newValue, guardedAssign(bnd[k], newValue))

\* _handleShadowChange: a change event of the <select> of a control of k
ShadowChange(k) ==
  /\ listening
  /\ k \in bindings
  /\ \E p \in ControlsAt(k, SelectKinds) :
       \E i \in 1..Len(Options(bnd[k])) :
         InlineEdit(k, p, VStr(Options(bnd[k])[i]),
                    guardedAssign(bnd[k], VStr(Options(bnd[k])[i])))

(***************************************************************************)
(* The documents of the model.  In one the host has a <template> child     *)
(* with a block comment on k around a line toggle on j, an unknown key z,  *)
(* and a block that opens and closes on one line.  In the other it has     *)
(* <textarea> sections whose conditions are about m (a binding of any of   *)
(* four types) and about q (no binding); the last section has a line that  *)
(* reads like the separator sentinel.                                      *)
(***************************************************************************)
kZ == <<"z">>

BlockTemplate ==
  <<Line("", <<Text("head")>>),
    Line("", <<Text("a "), Open(kK), Text(" b")>>),
    Line("  ", <<Open(kJ), Text("inner")>>),
    Line("", <<Open(kZ), Text(" mid")>>),
    Line("", <<Text("c "), Close(kK), Text(" d")>>),
    Line("", <<Open(kJ), Text("after "), Open(kJ)>>),
    Line("", <<Open(kK), Text("one"), Close(kK)>>),
    Line("", <<Text("tail "), Open(kZ), Text(" "), Open(kJ), Open(kK)>>),
    Line("", <<Text("__BINDING_0__"), Text(" "), Open(kJ)>>)>>

Section(condition, content) == [condition |-> condition, value |-> content]

Sections ==
  <<Section(VStr(<<"m">>), <<Line("", <<Open(kM), Text(" on")>>)>>),
    Section(VStr(<<"!", "m">>), <<Line("", <<Text("off")>>)>>),
    Section(VStr(<<"m", "=", "a">>), <<Line("", <<Text("is a")>>)>>),
    Section(VStr(<<"!", "m", "=", "a">>), <<Line("", <<Text("not a")>>)>>),
    Section(VStr(<<"m", "=", " ", "a">>), <<Line("", <<Text("spaced")>>)>>),
    Section(VStr(<<"m", "=", "0">>), <<Line("", <<Text("zero")>>),
                                      Line("", <<Text("__SECTION_SEPARATOR__")>>),
                                      Line("", <<Text("nil")>>)>>),
    Section(VStr(<<"q">>), <<Line("", <<Text("q on")>>)>>),
    Section(VStr(<<"!", "q">>), <<Line("", <<Text("q off")>>)>>),
    Section(VStr(<<"q", "=", "a">>), <<Line("", <<Text("q is a")>>)>>),
    Section(VStr(<<"!", "q", "=", "a">>), <<Line("", <<Text("q not a")>>)>>),
    Section(VNull, <<Line("", <<Text("always")>>), Line("", <<Text("end")>>)>>)>>

Plain(type, v) == Constructed(type, v, VNull, VNull, VNull, VNull, FALSE)

\* the bindings of the block document: with value attributes, or without any
BlockElements ==
  {[k \in {kK, kJ} |-> Plain("comment", IF k = kK THEN vk ELSE vj)] :
     <<vk, vj>> \in {<<VNull, VNull>>, <<VStr(sFalse), VStr(sTrue)>>}}

\* the binding m of the sections document
SectionElements ==
  {[k \in {kM} |-> el] :
     el \in {Plain("boolean", VNull), Plain("boolean", VStr(sTrue)),
             Constructed("select", VStr(<<"a">>), VNull, VNull, VNull,
                         VStr(<<"a", ",">> \o sUndefined), FALSE),
             Constructed("number", VStr(<<"0">>), VStr(<<"0">>), VStr(<<"2">>),
                         VNull, VNull, FALSE),
             Plain("string", VStr(<<>>))}}

HostInit(document, elements, languages) ==
  /\ \E els \in elements, language \in languages :
       /\ bnd = els
       /\ cycle = [k \in DOMAIN els |-> [start |-> els[k]._value, n |-> -1,
                                          refused |-> FALSE]]
       /\ hostAttrs = [NoPass.attrs EXCEPT !.language = language]
  /\ dom = document
  /\ emitted = <<>>
  /\ HostIdleRest

\* the life of the host: connection, late children, the two ways out of waiting
Lifecycle ==
  \/ ConnectedCallback
  \/ DisconnectedCallback
  \/ AttachChildren
  \/ ObserverCallback
  \/ FallbackTimeout

\* the host with conditional sections
Init == HostInit([textareas |-> Sections, template |-> <<>>], SectionElements, {"typescript"})

Next ==
  \/ Lifecycle
  \/ SetShowLineNumbers
  \/ SetShowSeparators
  \/ Toggle(kM)
  \/ Increment(kM)
  \/ Decrement(kM)
  \/ SetValueProp(kM)
  \/ SetDisabled(kM)

Spec == Init /\ [][Next]_vars

\* the host with the controls of four bindings in a page of markup, a
\* stylesheet and scripts, and a section that depends on the number
kB == <<"b">>
kC == <<"c">>
kS == <<"s">>

PageLines ==
  <<Line("", <<Text("<div title="), Open(kS), Text(">"), Open(kN), Text("</div>")>>),
    Line("", <<Text("<style>")>>),
    Line("  ", <<Text("a { width: "), Open(kN), Text("px }")>>),
    Line("", <<Text("</style>")>>),
    Line("", <<Text("<script type=\"module\">")>>),
    Line("  ", <<Text("let b = "), Open(kB), Text(";")>>),
    Line("", <<Text("</script>")>>),
    Line("", <<Text("<p>"), Open(kC), Text("</p>")>>),
    Line("", <<Text("<style lang=\"scss\">")>>),
    Line("  ", <<Text("b {}")>>),
    Line("", <<Text("</style>")>>),
    Line("", <<Text("<style>a{}</style>")>>)>>

PageSections ==
  <<Section(VNull, PageLines),
    Section(VStr(<<"n", "=", "3">>), <<Line("", <<Text("<b>three</b>")>>)>>)>>

\* the four bindings: enabled, or all disabled, or with an onchange text that
\* throws on the number and a color in place of the string, or with an onchange
\* text on the string that assigns to the boolean
PageElements ==
  LET els(disabled, onchange, sType, sValue, sOnchange) ==
        (kN :> WithOnchange(Constructed("number", VStr(<<"2">>), VStr(<<"2">>),
                                        VStr(<<"3">>), VNull, VNull, disabled), onchange))
        @@ (kB :> Constructed("boolean", VStr(sTrue), VNull, VNull, VNull, VNull, disabled))
        @@ (kC :> Constructed("select", VStr(<<"a">>), VNull, VNull, VNull,
                              VStr(<<"a", ",", "b", ",", "c">>), disabled))
        @@ (kS :> WithOnchange(Constructed(sType, VStr(sValue), VNull, VNull, VNull,
                                           VNull, disabled), sOnchange))
  IN {els(FALSE, "", "string", <<"x">>, ""),
      els(TRUE, "", "string", <<"x">>, ""),
      els(FALSE, "throws", "color", <<"#", "0", "0", "0">>, ""),
      els(FALSE, "", "string", <<"x">>, SetsB)}

InitPage ==
  HostInit([textareas |-> PageSections, template |-> <<>>], PageElements, {"html"})

NextPage ==
  \/ Lifecycle
  \/ Toggle(kB)
  \/ \E k \in {kN, kB, kC, kS} :
       \/ ClickControl(k)
       \/ Keydown(k)
       \/ ShadowInput(k)
       \/ ShadowChange(k)

SpecPage == InitPage /\ [][NextPage]_vars

\* the host whose content comes late or never: a <template> of one line, or no
\* child with text at all; the code property, the copy button, and
\* disconnectedCallback called at any time
LifeTemplate == <<Line("", <<Text("life "), Open(kK)>>)>>

LifeElements == {[k \in {kK} |-> Plain("comment", VStr(sFalse))]}

InitLife ==
  \/ HostInit([textareas |-> <<>>, template |-> LifeTemplate], LifeElements, {"typescript"})
  \/ HostInit(NoDom, LifeElements, {"typescript"})

NextLife ==
  \/ Lifecycle
  \/ DisconnectedAgain
  \/ SetCode
  \/ Toggle(kK)
  \/ CopyToClipboard
  \/ ClipboardResolved
  \/ ClipboardRejected
  \/ CopyTimeout

SpecLife == InitLife /\ [][NextLife]_vars

\* the fallback timer stops being pending: its callback runs (FallbackTimeout),
\* or disconnectedCallback clears it
FallbackTimerEnds == _fallbackTimeout /\ _fallbackTimeout' = FALSE

\* setTimeout(..., 100): a pending timer does not stay pending for ever
FairLife == SpecLife /\ WF_<<_fallbackTimeout>>(FallbackTimerEnds)

\* the host with a template of block comments and line toggles, or with its text
\* given by script
InitBlock ==
  HostInit([textareas |-> <<>>, template |-> BlockTemplate], BlockElements,
           {"typescript", "html"})

NextBlock ==
  \/ Lifecycle
  \/ SetCode
  \/ \E k \in {kK, kJ} :
       \/ Toggle(k)
       \/ SetValueProp(k)
       \/ SetDisabled(k)

SpecBlock == InitBlock /\ [][NextBlock]_vars

\* the host with a block comment around two lines of a script, in each of the
\* declared languages, and closing placeholders of a boolean binding and of no
\* binding
ShellTemplate ==
  <<Line("", <<Text("echo a")>>),
    Line("", <<Open(kK), Text("echo b")>>),
    Line("", <<Text("echo c")>>),
    Line("", <<Text("echo d "), Close(kK)>>),
    Line("", <<Text("echo e "), Close(kB), Close(kZ)>>),
    Line("", <<Text("echo f")>>)>>

ShellElements ==
  {(kK :> Plain("comment", vk)) @@ (kB :> Plain("boolean", VStr(sTrue))) :
     vk \in {VNull, VStr(sFalse), VStr(sTrue)}}

InitShell ==
  HostInit([textareas |-> <<>>, template |-> ShellTemplate], ShellElements,
           {"html", "scss", "typescript", "shell"})

NextShell ==
  \/ Lifecycle
  \/ Toggle(kK)
  \/ Toggle(kB)

SpecShell == InitShell /\ [][NextShell]_vars

(***************************************************************************)
(* Claims about a binding element.                                         *)
(***************************************************************************)
\* value is a number of [min, max], both bounds being given
Within(el, value) ==
  /\ Min(el).t = "number" /\ Max(el).t = "number" /\ value.t = "number"
  /\ Min(el).n <= value.n /\ value.n <= Max(el).n

\* C9 (numeric clamping): for an enabled number binding with bounds min <= max,
\* whatever its step attribute, a value inside [min, max] is still inside
\* [min, max] after increment() and after decrement().
C9_ClampedAfterStep ==
  [][\A k \in DOMAIN bnd :
       (/\ Increment(k) \/ Decrement(k)
        /\ bnd[k].type = "number" /\ ~bnd[k]._disabled
        /\ Within(bnd[k], bnd[k]._value))
       => Within(bnd[k], bnd'[k]._value)]_vars

\* C10 (select cycling): for an enabled select binding with a non-empty list of
\* options (repeated options included), after any toggle the value is one of the
\* options, and n toggles from the first option lead to the option n places
\* further in declaration order, wrapping after the last.
C10_TogglesFollowDeclarationOrder ==
  \A k \in DOMAIN bnd :
    LET opts == Options(bnd[k])
        n == cycle[k].n
    IN (bnd[k].type = "select" /\ opts # <<>> /\ n \in 1..MaxToggles)
       => /\ \E i \in 1..Len(opts) : bnd[k]._value = VStr(opts[i])
          /\ cycle[k].start = VStr(opts[1]) => bnd[k]._value = VStr(opts[(n % Len(opts)) + 1])


(***************************************************************************)
(* Claims about the block comments and line toggles of a render pass.      *)
(* After a pass, codeContainer[i] is the markup of line i of pass.template *)
(* and pass.opens[i] is the Open Block State after that line.              *)
(***************************************************************************)
HasOpen(line, k) ==
  \E t \in 1..Len(line.toks) : line.toks[t].t = "open" /\ line.toks[t].key = k

HasClose(line, k) ==
  \E t \in 1..Len(line.toks) : line.toks[t].t = "close" /\ line.toks[t].key = k

\* line i has ${k}, and line j is the first line from i on that has ${/k}
BlockSpan(T, k, i, j) ==
  /\ i <= j
  /\ HasOpen(T[i], k)
  /\ HasClose(T[j], k)
  /\ \A h \in i..(j - 1) : ~HasClose(T[h], k)

\* the comment bindings other than k with a closing placeholder in the text
OtherBlockKeys(T, tbl, k) ==
  {o \in DOMAIN tbl \ {k} : tbl[o].type = "comment" /\ \E h \in 1..Len(T) : HasClose(T[h], o)}

\* C1 (block comment symmetry): with k a comment binding, every line from a line
\* with ${k} through the line with ${/k} is rendered grayed when k.value is
\* false; when k.value is true none of them is grayed on account of k (a grayed
\* one has a line toggle or lies in the block of another binding).
C1_BlockLinesGrayedWithBinding ==
  pass.done =>
    \A k \in DOMAIN pass.tbl :
      pass.tbl[k].type = "comment" =>
        \A i \in 1..Len(pass.template), j \in 1..Len(pass.template) :
          BlockSpan(pass.template, k, i, j) =>
            \A h \in i..j :
              pass.template[h] # SeparatorLine =>
                /\ pass.tbl[k]._value = VBool(FALSE) => codeContainer[h].grayed
                /\ (/\ pass.tbl[k]._value = VBool(TRUE)
                    /\ codeContainer[h].toggle = <<>>
                    /\ OtherBlockKeys(pass.template, pass.tbl, k) = {})
                   => ~codeContainer[h].grayed

\* the fragments of a line's content that stand for the placeholder of key
FragmentsOf(content, key) ==
  Cardinality({f \in 1..Len(content) : content[f].f # "code" /\ content[f].key = key})

OpensOf(toks, key) ==
  Cardinality({t \in 1..Len(toks) : toks[t].t = "open" /\ toks[t].key = key})

\* the rule for line i of the text T, rendered as html with the table tbl
LineToggleRule(T, tbl, html, opens, i) ==
  LET toks == T[i].toks
      key == toks[1].key
      consumed == html[i].toggle # <<>>
  IN IF toks # <<>> /\ toks[1].t = "open"
     THEN /\ consumed <=> /\ key \in DOMAIN tbl
                          /\ tbl[key].type = "comment"
                          /\ \A h \in 1..Len(T) : ~HasClose(T[h], key)
          /\ consumed =>
               /\ html[i].toggle[1].f = "line-toggle"
               /\ html[i].toggle[1].key = key
               /\ html[i].grayed <=> tbl[key]._value # VBool(TRUE)
               /\ FragmentsOf(html[i].content, key) = OpensOf(Tail(toks), key)
               /\ \A h \in 1..Len(opens) : key \notin opens[h]
     ELSE ~consumed

Included(condition) ==
  \E x \in 1..Len(pass.kept) : pass.sections[pass.kept[x]].condition = VStr(condition)

Assembled == pass.done /\ pass.sections # <<>>

Bound(k) == Assembled /\ k \in DOMAIN pass.tbl

BooleanM == Bound(kM) /\ pass.tbl[kM].type = "boolean"

\* the value of m went from one boolean to the other between two passes
Flipped ==
  /\ BooleanM /\ BooleanM'
  /\ pass.tbl[kM]._value.t = "boolean"
  /\ pass'.tbl[kM]._value = VBool(~pass.tbl[kM]._value.b)

\* C3 (round-trip of conditions), as stated: for a boolean binding m, the "m"
\* section is included iff m.value is true and the "!m" section iff m.value is
\* false.
C3_NegatedIffFalse ==
  BooleanM =>
    /\ Included(<<"m">>) <=> pass.tbl[kM]._value = VBool(TRUE)
    /\ Included(<<"!", "m">>) <=> pass.tbl[kM]._value = VBool(FALSE)

\* C3 (round-trip of conditions), amended: for a boolean binding m, after every
\* render exactly one of the sections "m" and "!m" is included, the "m" section
\* iff m.value is true and the "!m" section iff m.value is not true (false, or
\* not set); each flip of m.value with its re-render inverts which one is
\* included.
C3_ExactlyOneOfPair ==
  /\ [](BooleanM =>
          /\ Included(<<"m">>) <=> pass.tbl[kM]._value = VBool(TRUE)
          /\ Included(<<"!", "m">>) <=> pass.tbl[kM]._value # VBool(TRUE)
          /\ Included(<<"m">>) # Included(<<"!", "m">>))
  /\ [][Flipped =>
          /\ Included(<<"m">>)' # Included(<<"m">>)
          /\ Included(<<"!", "m">>)' # Included(<<"!", "m">>)]_vars

\* m, declared true, was flipped to false and the pass that followed included
\* "!m" only
C3_Witness ==
  /\ BooleanM
  /\ pass.tbl[kM].aValue = VStr(sTrue)
  /\ pass.tbl[kM]._value = VBool(FALSE)
  /\ Included(<<"!", "m">>)
  /\ ~Included(<<"m">>)

\* C4 (equality condition), as stated: a section key=value is included iff
\* String(binding.value) equals the text after the first "=".
C4_EqualsTextAfterEq ==
  Bound(kM) =>
    /\ Included(<<"m", "=", "a">>) <=> String(pass.tbl[kM]._value) = <<"a">>
    /\ Included(<<"m", "=", " ", "a">>) <=> String(pass.tbl[kM]._value) = <<" ", "a">>

\* C4 (equality condition), amended: for a condition key=value whose key names
\* an existing binding, the section is included iff String(binding.value) equals
\* the text after the first "=" with the white space around it removed; the
\* negated form is included iff they are not equal.
C4_EqualsTrimmedTextAfterEq ==
  Bound(kM) =>
    /\ Included(<<"m", "=", "a">>) <=> String(pass.tbl[kM]._value) = <<"a">>
    /\ Included(<<"!", "m", "=", "a">>) <=> String(pass.tbl[kM]._value) # <<"a">>
    /\ Included(<<"m", "=", " ", "a">>) <=> String(pass.tbl[kM]._value) = <<"a">>
    /\ Included(<<"m", "=", "0">>) <=> String(pass.tbl[kM]._value) = <<"0">>

\* the select m is on "a": "m=a" and "m= a" are in, "!m=a" is out
C4_Witness ==
  /\ Bound(kM)
  /\ pass.tbl[kM]._value = VStr(<<"a">>)
  /\ Included(<<"m", "=", " ", "a">>)
  /\ Included(<<"m", "=", "a">>)
  /\ ~Included(<<"!", "m", "=", "a">>)

\* C5 (absent-binding rule): a condition whose key (here q) has no binding is
\* false when not negated and true when negated, in the bare-key form and in the
\* key=value form; evaluating it always yields a value.
C5_AbsentBindingRule ==
  Assembled =>
    /\ ~Included(<<"q">>) /\ Included(<<"!", "q">>)
    /\ ~Included(<<"q", "=", "a">>) /\ Included(<<"!", "q", "=", "a">>)
    /\ \A i \in 1..Len(pass.sections) :
         evaluateCondition(pass.sections[i].condition, pass.tbl) \in BOOLEAN

\* a pass evaluated the four conditions on q, a key without a binding
C5_Witness ==
  /\ Assembled
  /\ <<"q">> \notin DOMAIN pass.tbl
  /\ \A c \in {<<"q">>, <<"!", "q">>, <<"q", "=", "a">>, <<"!", "q", "=", "a">>} :
       \E i \in 1..Len(pass.sections) : pass.sections[i].condition = VStr(c)
  /\ Included(<<"!", "q", "=", "a">>)
  /\ Included(<<"!", "q">>)

NotTruthy == {VUndef, VNull, VBool(FALSE), VStr(sUndefined)}

\* C6 (truthiness rule): for a bare-key condition on an existing binding the
\* section is included iff the value is none of undefined, null, false and the
\* string "undefined", and the negated one iff it is one of them; so the number 0
\* and the empty string are truthy and the select value "undefined" is falsy.
C6_TruthinessRule ==
  Bound(kM) =>
    /\ Included(<<"m">>) <=> pass.tbl[kM]._value \notin NotTruthy
    /\ Included(<<"!", "m">>) <=> pass.tbl[kM]._value \in NotTruthy
    /\ pass.tbl[kM]._value \in {VNum(0), VStr(<<>>)} => Included(<<"m">>)
    /\ pass.tbl[kM]._value = VStr(sUndefined) => Included(<<"!", "m">>)

\* the select m was toggled to its option "undefined" and "!m" is in
C6_Witness ==
  /\ Bound(kM)
  /\ pass.tbl[kM].type = "select"
  /\ pass.tbl[kM]._value = VStr(sUndefined)
  /\ Included(<<"!", "m">>)
  /\ ~Included(<<"m">>)

SeparatorFragments ==
  Cardinality({h \in 1..Len(codeContainer) : codeContainer[h].cls = "section-separator"})

\* C7 (template assembly): the assembled template is the contents of exactly the
\* sections whose condition is true, in declaration order, joined by a separator
\* line iff separators are requested and more than one is kept, by a newline
\* otherwise; the output has (kept - 1) separator fragments in the first case and
\* none in the second.
C7_TemplateAssembly ==
  Assembled =>
    LET n == Len(pass.kept)
        separated == pass.attrs.showSeparators /\ n > 1
    IN /\ \A x \in 1..(n - 1) : pass.kept[x] < pass.kept[x + 1]
       /\ \A i \in 1..Len(pass.sections) :
            (\E x \in 1..n : pass.kept[x] = i)
              <=> evaluateCondition(pass.sections[i].condition, pass.tbl)
       /\ pass.template = Join([x \in 1..n |-> pass.sections[pass.kept[x]].content],
                               IF separated THEN <<SeparatorLine>> ELSE <<>>)
       /\ SeparatorFragments = IF separated THEN n - 1 ELSE 0

\* the rendered lines up to h that are not separators
ContentLinesTo(h) ==
  Cardinality({g \in 1..h : codeContainer[g].cls # "section-separator"})

\* C8 (line numbering): with line numbers enabled the k-th non-separator line of
\* the output carries the number k and a separator fragment carries none and
\* consumes none; with line numbers disabled no line carries a number (num = 0).
C8_LineNumbering ==
  pass.done =>
    \A h \in 1..Len(codeContainer) :
      codeContainer[h].num =
        IF pass.attrs.showLineNumbers /\ codeContainer[h].cls # "section-separator"
        THEN ContentLinesTo(h) ELSE 0

\* a numbered pass with a separator between numbered lines
C8_Witness ==
  /\ pass.done
  /\ pass.attrs.showLineNumbers
  /\ pass.attrs.showSeparators
  /\ \E h \in 2..(Len(codeContainer) - 1) :
       /\ codeContainer[h].cls = "section-separator"
       /\ codeContainer[h - 1].num > 0
       /\ codeContainer[h + 1].num = codeContainer[h - 1].num + 1

(***************************************************************************)
(* Claims about the operations of a binding element and its change events. *)
(***************************************************************************)
\* C11 (disabled binding operations): while the disabled flag of a binding is
\* set, toggle(), increment() and decrement() leave its value unchanged and
\* emit no change event, whatever its type and value.
C11_DisabledMethodsDoNothing ==
  [][\A k \in DOMAIN bnd :
       (bnd[k]._disabled /\ (Toggle(k) \/ Increment(k) \/ Decrement(k)))
       => bnd'[k] = bnd[k] /\ emitted' = <<>>]_vars

\* a method was called on a disabled element that holds a value
C11_Witness ==
  /\ cycle[kN].refused
  /\ bnd[kN]._disabled
  /\ bnd[kN]._value # VUndef

\* the calls of a step that went to the listeners of the change event
ToListeners(events) ==
  {i \in 1..Len(events) : events[i].to = "listeners"}

ToOnchange(events) ==
  {i \in 1..Len(events) : events[i].to = "onchange"}

\* C13 (change notification): every step by which the value of a binding comes
\* to differ from its previous value (an assignment to the value property, a
\* change of the value attribute, toggle, increment, decrement, the parsing of
\* the value attribute when the element is connected) emits exactly one change
\* event, whose detail is the new value and which bubbles and is composed.
C13_EveryChangeNotified ==
  [][\A k \in DOMAIN bnd :
       bnd'[k]._value # bnd[k]._value =>
         /\ Cardinality(ToListeners(emitted')) = 1
         /\ \A i \in ToListeners(emitted') :
              /\ emitted'[i].e.detail = bnd'[k]._value
              /\ emitted'[i].e.bubbles /\ emitted'[i].e.composed]_vars

\* C14 (inline handler convention): when a binding with an onchange attribute
\* changes value, the text of the attribute is executed exactly once for the
\* change, with e an event whose detail is the new value, and this very event
\* is then dispatched to the listeners.
C14_InlineHandlerGetsTheEvent ==
  [][\A k \in DOMAIN bnd :
       (bnd[k].aOnchange = "returns" /\ bnd'[k]._value # bnd[k]._value) =>
         /\ Len(emitted') = 2
         /\ emitted'[1].to = "onchange" /\ emitted'[2].to = "listeners"
         /\ emitted'[1].e = ChangeEvent(bnd'[k])
         /\ emitted'[2].e = emitted'[1].e]_vars


\* C12: in the host, no interaction through the rendered controls of a disabled
\* binding (a click, Enter or Space, ArrowUp or ArrowDown, the input or change
\* of its inline editor) changes the value of that binding
C12_DisabledControlsChangeNothing ==
  [][\A k \in DOMAIN bnd :
       (bnd[k]._disabled
          /\ (ClickControl(k) \/ Keydown(k) \/ ShadowInput(k) \/ ShadowChange(k)))
       => bnd'[k]._value = bnd[k]._value]_vars


(***************************************************************************)
(* Claims about the markers of a line.                                     *)
(***************************************************************************)
MarkerKinds == {"BINDING", "COMMENT_START", "COMMENT_END"}

\* the text s is one of the marker tokens a line of n tokens can create
IsMarkerToken(s, n) ==
  \E kind \in MarkerKinds, index \in 0..n : s = Marker(kind, index)

\* the placeholders of line i of T that processMarkers sees, the line toggle
\* being cut off before
PlaceholdersOf(T, html, i) ==
  Cardinality({t \in 1..Len(T[i].toks) : T[i].toks[t].t \in {"open", "close"}})
  - (IF html[i].toggle # <<>> THEN 1 ELSE 0)

\* C15 (marker integrity): in every rendered line every placeholder has become
\* exactly one fragment of markup, and no marker token (__BINDING_n__,
\* __COMMENT_START_n__, __COMMENT_END_n__) is left in the line, also when the
\* text of the template looks like a marker token.
C15_NoMarkerLeft ==
  pass.done =>
    \A i \in 1..Len(pass.template) :
      pass.template[i] # SeparatorLine =>
        LET content == codeContainer[i].content
        IN /\ \A f \in 1..Len(content) :
                content[f].f = "code" => ~IsMarkerToken(content[f].s, Len(content))
           /\ Cardinality({f \in 1..Len(content) : content[f].f # "code"})
                = PlaceholdersOf(pass.template, codeContainer, i)


(***************************************************************************)
(* Claims about a render pass as a whole.                                  *)
(***************************************************************************)
\* what a second pass over what the last pass read would show
SecondPass ==
  renderTemplate(pass.template, pass.attrs.language, pass.attrs.showLineNumbers,
                 pass.tbl, pass.last)

UnknownKeys(toks, tbl) ==
  {toks[t].key : t \in {t \in 1..Len(toks) : toks[t].t = "open"}} \ DOMAIN tbl

\* the unknown tokens of a line's content that hold the text ${key}
UnknownTokensOf(content, key) ==
  Cardinality({f \in 1..Len(content) :
                 content[f] = Frag("token-unknown", key, FALSE, FALSE, "${", <<>>, "")})

\* the chunks of text of a line are all in its content, as code
TextRendered(toks, content) ==
  \A t \in 1..Len(toks) :
    toks[t].t = "text" =>
      \E f \in 1..Len(content) : content[f].f = "code" /\ content[f].s = toks[t].s

\* C17 (unknown-binding safety): in a rendered line, an opening placeholder
\* ${key} whose key has no binding is one unknown token with the text ${key},
\* which is no control; key is not in the Open Block State; and the other
\* placeholders and the text of the line are rendered.
C17_UnknownKeyIsOneInertToken ==
  pass.done =>
    \A i \in 1..Len(pass.template) :
      LET toks == pass.template[i].toks
          content == codeContainer[i].content
      IN \A key \in UnknownKeys(toks, pass.tbl) :
           /\ UnknownTokensOf(content, key) = OpensOf(toks, key)
           /\ FragmentsOf(content, key) = OpensOf(toks, key)
           /\ key \notin pass.opens[i]
           /\ (i > 1 /\ pass.opens[i] # pass.opens[i - 1])
                => \E o \in DOMAIN pass.tbl : HasOpen(pass.template[i], o) \/ HasClose(pass.template[i], o)
           /\ \A o \in DOMAIN pass.tbl :
                FragmentsOf(content, o) + (IF codeContainer[i].toggle # <<>> /\ codeContainer[i].toggle[1].key = o THEN 1 ELSE 0)
                  = OpensOf(toks, o) + Cardinality({t \in 1..Len(toks) : toks[t].t = "close" /\ toks[t].key = o})
           /\ TextRendered(toks, content)

\* a pass rendered the line with ${z}, ${j} and ${k}: z without binding, the
\* control of j and the block toggle of k next to its unknown token
C17_Witness ==
  /\ pass.done
  /\ pass.template = BlockTemplate
  /\ kZ \notin DOMAIN pass.tbl
  /\ {kJ, kK} \subseteq DOMAIN pass.tbl
  /\ UnknownTokensOf(codeContainer[8].content, kZ) = 1
  /\ FragmentsOf(codeContainer[8].content, kJ) = 1
  /\ kK \in pass.opens[8]


(***************************************************************************)
(* Claims about the zones of a text whose declared language is html.       *)
(***************************************************************************)
\* the line holds one of these tags
Holds(line, texts) ==
  \E t \in 1..Len(line.toks) : line.toks[t].t = "text" /\ line.toks[t].s \in texts

OpeningTexts(kind) == IF kind = "scss" THEN OpeningStyleTexts ELSE OpeningScriptTexts

ClosingTexts(kind) == IF kind = "scss" THEN ClosingStyleTexts ELSE ClosingScriptTexts

\* the line opens a block of this kind: it holds the opening tag and not the
\* closing tag
Opens(line, kind) == Holds(line, OpeningTexts(kind)) /\ ~Holds(line, ClosingTexts(kind))

\* line i lies in no block that an earlier line opened and no line before i closed
RECURSIVE TopLevel(_, _)
TopLevel(T, i) ==
  \A o \in 1..(i - 1) : \A kind \in {"scss", "typescript"} :
    (Opens(T[o], kind) /\ TopLevel(T, o))
      => \E c \in (o + 1)..(i - 1) : Holds(T[c], ClosingTexts(kind))

\* lines i..j are a block of this kind: i its opening-tag line, j the next line
\* with the matching closing tag
Block(T, i, j, kind) ==
  /\ i < j
  /\ Opens(T[i], kind) /\ TopLevel(T, i)
  /\ Holds(T[j], ClosingTexts(kind))
  /\ \A c \in (i + 1)..(j - 1) : ~Holds(T[c], ClosingTexts(kind))

\* the code of rendered line h is highlighted in this language
Highlighted(h, language) ==
  \A f \in 1..Len(codeContainer[h].content) :
    codeContainer[h].content[f].f = "code" => codeContainer[h].content[f].lang = language

\* C18 (zone switching): with declared language html, the lines strictly
\* between the line with an opening <style> (<script>) tag and the next line
\* with the closing tag are highlighted as scss (typescript); the two tag lines
\* are highlighted as html; and the lines after the closing-tag line are
\* highlighted as html up to and including the next opening-tag line, for every
\* block of the text.
C18_ZonesFollowTheTags ==
  (pass.done /\ pass.attrs.language = "html") =>
    LET T == pass.template
    IN \A kind \in {"scss", "typescript"} : \A i \in 1..Len(T), j \in 1..Len(T) :
         Block(T, i, j, kind) =>
           /\ \A h \in (i + 1)..(j - 1) : Highlighted(h, kind)
           /\ Highlighted(i, "html")
           /\ Highlighted(j, "html")
           /\ \A h \in (j + 1)..Len(T) :
                (\A o \in (j + 1)..(h - 1) : \A x \in {"scss", "typescript"} : ~Opens(T[o], x))
                  => Highlighted(h, "html")

\* the page was rendered with its three blocks: the control of n in the first
\* stylesheet, the control of b in the script, and markup after the last block
C18_Witness ==
  /\ pass.done /\ pass.attrs.language = "html"
  /\ Len(pass.template) >= Len(PageLines)
  /\ SubSeq(pass.template, 1, Len(PageLines)) = PageLines
  /\ \E f \in 1..Len(codeContainer[3].content) :
       codeContainer[3].content[f].f = "code" /\ codeContainer[3].content[f].lang = "scss"
  /\ FragmentsOf(codeContainer[3].content, kN) = 1
  /\ \E f \in 1..Len(codeContainer[6].content) :
       codeContainer[6].content[f].f = "code" /\ codeContainer[6].content[f].lang = "typescript"
  /\ \E f \in 1..Len(codeContainer[10].content) :
       codeContainer[10].content[f].f = "code" /\ codeContainer[10].content[f].lang = "scss"
  /\ \E f \in 1..Len(codeContainer[12].content) :
       codeContainer[12].content[f].f = "code" /\ codeContainer[12].content[f].lang = "html"


(***************************************************************************)
(* Claims about the code property.                                         *)
(***************************************************************************)
\* C19 (code property precedence): every render pass made while the code
\* property holds a string renders that string, and not the text of the
\* <textarea> or <template> children, whether code was assigned before the
\* element was connected or after it was initialized from its children.
C19_RenderUsesCode ==
  [][(_code' # NullCode /\ pass'.done /\ pass' # pass) => pass'.template = _code']_vars


(***************************************************************************)
(* Claims about the guard of the inline editors.                           *)
(***************************************************************************)
\* the step dispatched a change event from a binding inside the listening host
Dispatched ==
  /\ listening /\ attached
  /\ \E i \in 1..Len(emitted') : emitted'[i].to = "listeners"

\* the step is a change made outside the inline editors: by a method call on
\* the element, a click or a key on its control
ExternalChange ==
  /\ bnd' # bnd
  /\ \E k \in DOMAIN bnd : Toggle(k) \/ ClickControl(k) \/ Keydown(k)

\* C20 (reentrancy guard release): _internalChange is false between the
\* handlers, also after an inline editor's assignment threw, and so every later
\* change of a binding made outside the inline editors, whose change event is
\* dispatched in the listening host, is followed by a full render pass over the
\* bindings as they are.
C20_GuardReleased ==
  /\ [](~_internalChange)
  /\ [][(Dispatched /\ ExternalChange)
         => /\ pass'.done
            /\ pass'.tbl = Tbl(bindings, bnd')
            /\ unseen' = 0]_vars

\* the assignment of the number editor threw (the onchange text of n throws):
\* the control shows the typed 3, the value is 3, no pass was made, and the
\* guard is released
C20_Witness ==
  /\ ~_internalChange
  /\ pass.done /\ kN \in DOMAIN pass.tbl
  /\ bnd[kN].aOnchange = "throws"
  /\ Len(emitted) = 1
  /\ emitted[1] = [to |-> "onchange", e |-> ChangeEvent(bnd[kN])]
  /\ bnd[kN]._value = VNum(3)
  /\ pass.tbl[kN]._value = VNum(2)
  /\ \E p \in ControlsAt(kN, InputKinds) :
       codeContainer[p[1]].content[p[2]].v = <<"3">>


(***************************************************************************)
(* Claims about the wait for content and its teardown.                     *)
(***************************************************************************)
\* C21 (bounded-wait teardown): the step that makes the first render of a host
\* that waited for content, be it the observer's callback or the fallback
\* timer's, leaves neither the observer nor the fallback timer pending.
C21_WaitTornDownAtFirstRender ==
  [][(~_initialized /\ _initialized') => (~_observer' /\ ~_fallbackTimeout')]_vars


\* C22 (cancellation on disconnect): disconnectedCallback, on a connected host
\* or called again on a disconnected one, leaves the observer, the fallback
\* timer and the copy-feedback timer cancelled and their fields null; while
\* the host is disconnected neither of the wait's callbacks is pending, and
\* they run on a connected host only.
C22_DisconnectCancelsAll ==
  /\ [][(DisconnectedCallback \/ DisconnectedAgain)
         => /\ ~_observer' /\ ~mutationPending' /\ ~_fallbackTimeout'
            /\ ~_copyTimeout' /\ clipboard'.timers = 0]_vars
  /\ [](~connected => (~_observer /\ ~mutationPending /\ ~_fallbackTimeout))
  /\ [][(ObserverCallback \/ FallbackTimeout) => connected]_vars

\* the host was disconnected while it waited for content, a clipboard write
\* still unsettled: the fallback timer it had set is cancelled
C22_Witness ==
  /\ ~connected /\ ~listening
  /\ ~_initialized
  /\ clipboard.writes > 0
  /\ ~_observer /\ ~_fallbackTimeout /\ ~_copyTimeout


(***************************************************************************)
(* Claims about the attributes of the host.                                *)
(***************************************************************************)
\* C23 (re-render on presentation attributes): on an initialized host, the step
\* that changes language, show-line-numbers or show-separators makes a full
\* render pass with the new attribute values before it returns.
C23_AttributeChangeRenders ==
  [][(_initialized /\ hostAttrs' # hostAttrs)
       => (pass'.done /\ pass'.attrs = hostAttrs' /\ unseen' = 0)]_vars


\* C24 (eventual initialization): a connected host that is not disconnected is
\* eventually initialized and rendered, at the latest when the fallback timer
\* fires, also when the code property is assigned during the wait; and an
\* initialized host stays initialized.
C24_EventuallyInitialized ==
  /\ connected ~> ((_initialized /\ pass.done) \/ ~connected)
  /\ [][(~connected /\ connected' /\ HasTemplate) => (_initialized' /\ pass'.done)]_vars
  /\ [][_initialized => _initialized']_vars

\* the host without content was initialized by the fallback timer: it rendered
\* the empty text, and the wait is over
C24_Witness ==
  /\ connected /\ _initialized /\ pass.done
  /\ dom = NoDom
  /\ pass.template = EmptyText
  /\ ~_fallbackTimeout /\ ~_observer


\* the closing placeholders of line i all have keys that are not comment bindings,
\* and the line has no other placeholder
OnlyForeignCloses(T, tbl, i) ==
  /\ \E t \in 1..Len(T[i].toks) : T[i].toks[t].t = "close"
  /\ \A t \in 1..Len(T[i].toks) :
       /\ T[i].toks[t].t # "open"
       /\ T[i].toks[t].t = "close"
            => ~(T[i].toks[t].key \in DOMAIN tbl /\ tbl[T[i].toks[t].key].type = "comment")

\* <span class="token-unknown">${/key}</span> in the content of a line
UnknownClosesOf(content, key) ==
  Cardinality({f \in 1..Len(content) :
                 content[f] = Frag("token-unknown", key, FALSE, FALSE, "${/", <<>>, "")})

ClosesOf(toks, key) ==
  Cardinality({t \in 1..Len(toks) : toks[t].t = "close" /\ toks[t].key = key})

\* every block of a comment binding opened before line h was closed before line h
AllClosedBefore(T, tbl, h) ==
  \A k \in DOMAIN tbl, i \in 1..(h - 1) :
    (tbl[k].type = "comment" /\ HasOpen(T[i], k))
      => \E j \in i..(h - 1) : HasClose(T[j], k)

\* C25 (block close): in html, scss, typescript and shell alike, after a line
\* with the closing placeholder ${/key} of a comment binding the key is not in
\* the open block state, and a later line without placeholders, all blocks
\* before it being closed, is not grayed; a line whose only placeholders are
\* closing placeholders of keys that are not comment bindings leaves the open
\* block state as it was and shows each of them as an unknown token.
C25_BlockClosed ==
  pass.done =>
    \A i \in 1..Len(pass.template) :
      /\ \A k \in DOMAIN pass.tbl :
           (pass.tbl[k].type = "comment" /\ HasClose(pass.template[i], k))
             => k \notin pass.opens[i]
      /\ (/\ AllClosedBefore(pass.template, pass.tbl, i)
          /\ \A t \in 1..Len(pass.template[i].toks) : pass.template[i].toks[t].t = "text")
           => ~codeContainer[i].grayed
      /\ OnlyForeignCloses(pass.template, pass.tbl, i)
           => /\ pass.opens[i] = (IF i = 1 THEN {} ELSE pass.opens[i - 1])
              /\ \A t \in 1..Len(pass.template[i].toks) :
                   pass.template[i].toks[t].t = "close"
                     => UnknownClosesOf(codeContainer[i].content, pass.template[i].toks[t].key)
                          = ClosesOf(pass.template[i].toks, pass.template[i].toks[t].key)


\* the block indicators of the binding k in the content of a line
BlockIndicatorsOf(content, k) ==
  {f \in 1..Len(content) : content[f].f \in {"block-toggle", "block-end"} /\ content[f].key = k}

\* no comment binding other than k has a say on line i: none is open before
\* it and none has a placeholder on it
OnlyGovernedBy(T, tbl, opens, i, k) ==
  /\ (IF i = 1 THEN {} ELSE opens[i - 1]) \subseteq {k}
  /\ \A o \in DOMAIN tbl \ {k} :
       tbl[o].type = "comment" => ~HasOpen(T[i], o) /\ ~HasClose(T[i], o)

\* C26 (indicator inversion): whatever the value of a comment binding (true,
\* false or none), a line toggle of it is emphasized exactly when its line is
\* grayed, a block indicator of it that is emphasized stands on a grayed line,
\* and one that is dimmed stands on a line that is not grayed when no other
\* comment binding has a say on that line.
C26_IndicatorInversion ==
  pass.done =>
    \A i \in 1..Len(pass.template) :
      /\ codeContainer[i].toggle # <<>>
           => (codeContainer[i].toggle[1].active <=> codeContainer[i].grayed)
      /\ codeContainer[i].toggle = <<>>
           => \A k \in DOMAIN pass.tbl :
                \A f \in BlockIndicatorsOf(codeContainer[i].content, k) :
                  /\ codeContainer[i].content[f].active => codeContainer[i].grayed
                  /\ (/\ ~codeContainer[i].content[f].active
                      /\ OnlyGovernedBy(pass.template, pass.tbl, pass.opens, i, k))
                       => ~codeContainer[i].grayed


\* C27 (grayed rule for interior lines): a content line strictly between the
\* line of ${k} and the line of its ${/k}, k being a comment binding whose
\* value is false, is grayed whatever else it holds, a line toggle of another
\* comment binding whose value is true included.
C27_InteriorLinesGrayed ==
  pass.done =>
    \A k \in DOMAIN pass.tbl :
      (pass.tbl[k].type = "comment" /\ pass.tbl[k]._value = VBool(FALSE)) =>
        \A i \in 1..Len(pass.template), j \in 1..Len(pass.template) :
          BlockSpan(pass.template, k, i, j) =>
            \A h \in (i + 1)..(j - 1) :
              pass.template[h] # SeparatorLine => codeContainer[h].grayed


\* some condition is about the key: key, !key, key=value or !key=value
KeyReferenced(ccs, key) ==
  \E i \in 1..Len(ccs) :
    /\ ccs[i].condition.t = "string"
    /\ LET c == ccs[i].condition.s
           positive == IF c # <<>> /\ Head(c) = "!" THEN Tail(c) ELSE c
       IN /\ Len(positive) >= Len(key)
          /\ SubSeq(positive, 1, Len(key)) = key
          /\ Len(positive) > Len(key) => positive[Len(key) + 1] = "="

\* the step is an inline editor's handler for k that changed the binding and
\* returned
InlineEditReturned(k) ==
  /\ bnd'[k] # bnd[k]
  /\ bnd[k].aOnchange # "throws"
  /\ ShadowInput(k) \/ ShadowChange(k)

ShownAs(lines, k, v) ==
  \A h \in 1..Len(lines) :
    \A c \in 1..Len(lines[h].content) :
      (lines[h].content[c].f = "inline-boolean" /\ lines[h].content[c].key = k)
        => lines[h].content[c].v = escapeHtml(String(v))

\* C29 (guard scope): when the handler of an inline editor of a binding A
\* returns and, while it ran, the onchange text of A changed another binding
\* b, a pass was made over the bindings as they are and the control of b shows
\* b's value.
C29_OtherChangeRendered ==
  [][\A k \in DOMAIN bnd \ {kB} :
       (InlineEditReturned(k) /\ bnd'[kB] # bnd[kB])
         => /\ pass'.done
            /\ pass'.tbl[kB] = bnd'[kB]
            /\ ShownAs(codeContainer', kB, bnd'[kB]._value)]_vars


\* C30 (copy feedback and disconnect): no copy-feedback timer is pending while
\* the host is disconnected, also when a clipboard write resolves after
\* disconnectedCallback; and at most one such timer is pending at any time.
C30_NoCopyTimerOnceDisconnected ==
  /\ ~connected => (clipboard.timers = 0 /\ ~_copyTimeout)
  /\ clipboard.timers <= 1
  /\ _copyTimeout <=> clipboard.timers = 1

=============================================================================
